---- MODULE Spec2Model ----
(***************************************************************************)
(* GitHub Wrapped: the adaptive commit crawler (searchCommitsInRange,      *)
(* searchAllCommitsByUser / GitHubWrappedWorkflow.run) and the analytics   *)
(* engine (analyzeCommits) of the worker, as a state machine.              *)
(*                                                                         *)
(* A calendar date string "YYYY-MM-DD" is the triple <<y, m, d>> of its    *)
(* fields.  A Date object at UTC midnight is its ECMAScript day number     *)
(* (days since 1970-01-01).  The worker runs with the UTC time zone.       *)
(***************************************************************************)
EXTENDS Integers, Sequences, FiniteSets, TLC

----------------------------------------------------------------------------
(* Bounds of the model *)

\* the calendar years the month-range construction is applied to
FirstYear == 1896
LastYear == 2104
\* pages beyond MaxPages a range search is followed before the model stops it
MaxProbe == 2

(* Program constants *)

\* per_page=100 of the search URL
PerPage == 100
\* "GitHub only allows 10 pages (1000 results) max"
MaxPages == 10
\* totalCount > 1000
ResultCap == 1000
\* "Split into ~7 day chunks": i += 7
ChunkDays == 7

----------------------------------------------------------------------------
(* ECMAScript Date arithmetic, as used by new Date(year, m, 0).getDate(),   *)
(* new Date("YYYY-MM-DD"), setDate(getDate() + 1) and toISOString().       *)

Min(a, b) == IF a <= b THEN a ELSE b
Max(a, b) == IF a >= b THEN a ELSE b

\* ECMAScript DayFromYear(y)
DayFromYear(y) ==
    365 * (y - 1970) + ((y - 1969) \div 4) - ((y - 1901) \div 100) + ((y - 1601) \div 400)

\* ECMAScript DaysInYear(y)
DaysInYear(y) == DayFromYear(y + 1) - DayFromYear(y)

\* day within the year of the first day of month index mn (0 = January)
MonthStartDay(mn, leap) ==
    <<0, 31, 59, 90, 120, 151, 181, 212, 243, 273, 304, 334, 365>>[mn + 1]
        + (IF leap /\ mn >= 2 THEN 1 ELSE 0)

\* ECMAScript MakeDay(year, month, date): month index and date may overflow
MakeDay(y, mIdx, dt) ==
    LET ym == y + (mIdx \div 12)
        mn == mIdx % 12
    IN  DayFromYear(ym) + MonthStartDay(mn, DaysInYear(ym) = 366) + dt - 1

\* ECMAScript YearFromTime
YearFromDay(t) ==
    LET a == 1970 + (t \div 366)
        b == 1970 + (t \div 365)
    IN  CHOOSE y \in (Min(a, b) - 1)..(Max(a, b) + 1) :
            DayFromYear(y) <= t /\ t < DayFromYear(y + 1)

\* ECMAScript MonthFromTime (0 = January)
MonthFromDay(t) ==
    LET y == YearFromDay(t)
        leap == DaysInYear(y) = 366
        dwy == t - DayFromYear(y)
    IN  CHOOSE mn \in 0..11 :
            MonthStartDay(mn, leap) <= dwy /\ dwy < MonthStartDay(mn + 1, leap)

\* ECMAScript DateFromTime (day of the month, 1-based)
DateFromDay(t) ==
    LET y == YearFromDay(t)
        leap == DaysInYear(y) = 366
        dwy == t - DayFromYear(y)
    IN  dwy - MonthStartDay(MonthFromDay(t), leap) + 1

\* new Date("YYYY-MM-DD"): UTC midnight of that day
ParseDate(date) == MakeDay(date[1], date[2] - 1, date[3])

\* date.toISOString().split('T')[0]
ToISODate(t) == <<YearFromDay(t), MonthFromDay(t) + 1, DateFromDay(t)>>

\* a plausible slip: the month index of the 1-based month itself, so that
\* day 0 is the last day of the month before
LastDayOfPreviousMonth(year, m) == DateFromDay(MakeDay(year, m - 1, 0))

\* new Date(year, m, 0).getDate() for the 1-based month m
LastDayOfMonth(year, m) == DateFromDay(MakeDay(year, m, 0))

\* the 12 month ranges of searchAllCommitsByUser
MonthRanges(year) ==
    [m \in 1..12 |->
        [start |-> <<year, m, 1>>, end |-> <<year, m, LastDayOfMonth(year, m)>>]]

\* a slip: while (current < end), the last day is left out
GetDaysInRangeExclusive(startDate, endDate) ==
    LET current == ParseDate(startDate)
        end == ParseDate(endDate)
    IN  [k \in 1..(end - current) |-> ToISODate(current + k - 1)]

\* getDaysInRange(startDate, endDate)
GetDaysInRange(startDate, endDate) ==
    LET current == ParseDate(startDate)
        end == ParseDate(endDate)
    IN  [k \in 1..(end - current + 1) |-> ToISODate(current + k - 1)]

\* lexicographic order of two date strings of the same format
DateLE(a, b) ==
    \/ a[1] < b[1]
    \/ a[1] = b[1] /\ a[2] < b[2]
    \/ a[1] = b[1] /\ a[2] = b[2] /\ a[3] <= b[3]

----------------------------------------------------------------------------
(* The upstream search index.  A commit is known to the crawler by its sha  *)
(* (an integer here); the index holds, per committer date, the items it     *)
(* lists for the subject, in the order the search returns them.  The same   *)
(* sha may be listed twice (a commit present in a repository and its fork)  *)
(* and under two dates (a commit at the boundary of two ranges).            *)
(*   kind     "github": pages of 100, 422 beyond the first 1000 results;    *)
(*            "stuck": the page parameter is ignored, every page is page 1  *)
(*   phantom  matching commits that total_count counts and no page serves   *)
(*   faulty   whether any request may fail (403, 422, other status,         *)
(*            exception) at the upstream's whim                             *)
(*   failures the requests <<start, end, page>> that always fail, with the  *)
(*            status they fail with (0: the request throws)                 *)

Run(first, n) == [k \in 1..n |-> first + k - 1]

Sparse2024 ==
    [year |-> 2024, kind |-> "github", phantom |-> 0, faulty |-> TRUE, failures |-> <<>>,
     entries |->
        << [date |-> <<2023, 12, 31>>, shas |-> <<1>>],
           [date |-> <<2024, 1, 1>>, shas |-> <<2, 3>>],
           [date |-> <<2024, 1, 31>>, shas |-> <<4>>],
           [date |-> <<2024, 2, 29>>, shas |-> <<5, 5>>],
           [date |-> <<2024, 3, 1>>, shas |-> <<5>>],
           [date |-> <<2024, 12, 31>>, shas |-> <<6>>],
           [date |-> <<2025, 1, 1>>, shas |-> <<7>> ] >>]

Overcount2025 ==
    [year |-> 2025, kind |-> "github", phantom |-> 1400, faulty |-> TRUE, failures |-> <<>>,
     entries |->
        << [date |-> <<2025, 3, 4>>, shas |-> Run(1, 120)],
           [date |-> <<2025, 3, 31>>, shas |-> <<121>>] >>]

Flaky2024 ==
    [year |-> 2024, kind |-> "github", phantom |-> 0, faulty |-> FALSE, failures |->
        (<< <<2024, 1, 1>>, <<2024, 1, 31>>, 1 >> :> 403) @@
        (<< <<2024, 3, 1>>, <<2024, 3, 31>>, 1 >> :> 500) @@
        (<< <<2024, 11, 1>>, <<2024, 11, 30>>, 1 >> :> 422) @@
        (<< <<2024, 12, 1>>, <<2024, 12, 31>>, 1 >> :> 0),
     entries |->
        << [date |-> <<2024, 1, 15>>, shas |-> <<1, 2>>],
           [date |-> <<2024, 2, 29>>, shas |-> <<3, 3>>],
           [date |-> <<2024, 4, 30>>, shas |-> <<4, 5>>],
           [date |-> <<2024, 12, 25>>, shas |-> <<6>>] >>]

FullMonth2023 ==
    [year |-> 2023, kind |-> "github", phantom |-> 0, faulty |-> FALSE, failures |-> <<>>,
     entries |->
        << [date |-> <<2023, 4, 10>>, shas |-> Run(1, 1000)] >>]

BusyMonth2023 ==
    [year |-> 2023, kind |-> "github", phantom |-> 0, faulty |-> FALSE, failures |-> <<>>,
     entries |->
        << [date |-> <<2023, 3, 3>>, shas |-> Run(1, 600)],
           [date |-> <<2023, 3, 20>>, shas |-> Run(601, 400)],
           [date |-> <<2023, 3, 31>>, shas |-> <<1001>>] >>]

BusyWeek2024 ==
    [year |-> 2024, kind |-> "github", phantom |-> 0, faulty |-> FALSE, failures |-> <<>>,
     entries |->
        << [date |-> <<2024, 2, 8>>, shas |-> Run(1, 1000)],
           [date |-> <<2024, 2, 9>>, shas |-> <<1001>>],
           [date |-> <<2024, 2, 29>>, shas |-> <<1002>>] >>]

BusyDay2025 ==
    [year |-> 2025, kind |-> "github", phantom |-> 0, faulty |-> FALSE, failures |-> <<>>,
     entries |->
        << [date |-> <<2025, 6, 15>>, shas |-> Run(1, 1001)] >>]

BusyLeapDay2024 ==
    [year |-> 2024, kind |-> "github", phantom |-> 0, faulty |-> FALSE, failures |-> <<>>,
     entries |->
        << [date |-> <<2024, 2, 29>>, shas |-> Run(1, 1001)] >>]

StuckPager2025 ==
    [year |-> 2025, kind |-> "stuck", phantom |-> 0, faulty |-> FALSE, failures |-> <<>>,
     entries |->
        << [date |-> <<2025, 5, 5>>, shas |-> Run(1, 100)],
           [date |-> <<2025, 5, 6>>, shas |-> <<101>>] >>]

ThreeProjects2025 ==
    [year |-> 2025, kind |-> "github", phantom |-> 0, faulty |-> FALSE, failures |-> <<>>,
     entries |->
        << [date |-> <<2025, 2, 10>>, shas |-> Run(1, 150)],
           [date |-> <<2025, 6, 15>>, shas |-> Run(151, 150)],
           [date |-> <<2025, 11, 20>>, shas |-> Run(301, 150)] >>]

Idle2025 ==
    [year |-> 2025, kind |-> "github", phantom |-> 0, faulty |-> FALSE, failures |-> <<>>,
     entries |-> << [date |-> <<2024, 12, 31>>, shas |-> <<1>>] >>]

\* every month holds 100 commits on its first day and the index reports 1000
\* more; the second page of every month-level search is refused with 403
RefusedMonths2023 ==
    [year |-> 2023, kind |-> "github", phantom |-> 1000, faulty |-> FALSE,
     failures |->
        [q \in { << <<2023, m, 1>>, <<2023, m, LastDayOfMonth(2023, m)>>, 2 >> : m \in 1..12 }
            |-> 403],
     entries |-> [m \in 1..12 |-> [date |-> <<2023, m, 1>>, shas |-> Run(100 * (m - 1) + 1, 100)]]]

\* the index reports 1000 commits more than it serves.  The searches of
\* January, February and March fail at once.  April holds 100 commits on its
\* first day and one on its 25th: the second page of the month and of its
\* first week is refused with 403, so that the month is searched by weeks and
\* its first week by days, and the search of its third week is never
\* answered (-1: no response at all)
Hanging2024 ==
    [year |-> 2024, kind |-> "github", phantom |-> 1000, faulty |-> FALSE,
     failures |->
        (<< <<2024, 1, 1>>, <<2024, 1, 31>>, 1 >> :> 500) @@
        (<< <<2024, 2, 1>>, <<2024, 2, 29>>, 1 >> :> 0) @@
        (<< <<2024, 3, 1>>, <<2024, 3, 31>>, 1 >> :> 422) @@
        (<< <<2024, 4, 1>>, <<2024, 4, 30>>, 2 >> :> 403) @@
        (<< <<2024, 4, 1>>, <<2024, 4, 7>>, 2 >> :> 403) @@
        (<< <<2024, 4, 15>>, <<2024, 4, 21>>, 1 >> :> -1),
     entries |->
        << [date |-> <<2024, 1, 20>>, shas |-> <<201, 202>>],
           [date |-> <<2024, 4, 1>>, shas |-> Run(1, 100)],
           [date |-> <<2024, 4, 25>>, shas |-> <<101>>],
           [date |-> <<2024, 6, 1>>, shas |-> <<102>>] >>]

ScenarioNames ==
    {"Sparse2024", "Overcount2025", "Flaky2024", "FullMonth2023", "BusyMonth2023",
     "BusyWeek2024", "BusyDay2025", "BusyLeapDay2024", "StuckPager2025",
     "ThreeProjects2025", "Idle2025", "RefusedMonths2023"}

Scenario(name) ==
    CASE name = "Sparse2024" -> Sparse2024
      [] name = "Overcount2025" -> Overcount2025
      [] name = "Flaky2024" -> Flaky2024
      [] name = "FullMonth2023" -> FullMonth2023
      [] name = "BusyMonth2023" -> BusyMonth2023
      [] name = "BusyWeek2024" -> BusyWeek2024
      [] name = "BusyDay2025" -> BusyDay2025
      [] name = "BusyLeapDay2024" -> BusyLeapDay2024
      [] name = "StuckPager2025" -> StuckPager2025
      [] name = "ThreeProjects2025" -> ThreeProjects2025
      [] name = "Idle2025" -> Idle2025
      [] name = "RefusedMonths2023" -> RefusedMonths2023
      [] name = "Hanging2024" -> Hanging2024

Implementations == {"worker", "workflow"}

\* the items matching committer-date:start..end, sorted by committer-date
\* descending (entries are kept in ascending date order)
RECURSIVE ItemsFrom(_, _, _, _)
ItemsFrom(entries, k, start, end) ==
    IF k = 0 THEN <<>>
    ELSE (IF DateLE(start, entries[k].date) /\ DateLE(entries[k].date, end)
          THEN entries[k].shas ELSE <<>>)
         \o ItemsFrom(entries, k - 1, start, end)

RangeItems(up, start, end) == ItemsFrom(up.entries, Len(up.entries), start, end)

\* the slice of a result list the search API serves as page `page`
PageOf(list, page) ==
    SubSeq(list, PerPage * (page - 1) + 1, Min(PerPage * page, Len(list)))

\* the items of the answer to (query, page)
UpstreamItems(up, start, end, page) ==
    IF up.kind = "stuck" THEN PageOf(RangeItems(up, start, end), 1)
    ELSE PageOf(RangeItems(up, start, end), page)

\* total_count of the answer
UpstreamTotal(up, start, end) ==
    LET n == Len(RangeItems(up, start, end))
    IN  IF n = 0 THEN 0 ELSE n + up.phantom

\* GitHub answers 422 beyond the first 1000 results of a query
BeyondCap(up, page) == up.kind = "github" /\ page > MaxPages

\* whether the upstream may answer the request with status (200: a page)
Answers(up, start, end, page, status) ==
    IF <<start, end, page>> \in DOMAIN up.failures
    THEN up.failures[<<start, end, page>>] = status
    ELSE status = 200 \/ up.faulty

----------------------------------------------------------------------------
(* State *)

VARIABLES
    impl,            \* which copy of the crawler runs: the worker's or the workflow's
    scenario,        \* the name of the upstream the run talks to
    year,            \* the target year
    pc,              \* position of the run
    months,          \* searchAllCommitsByUser: months
    monthIdx,        \* index of the month being processed (1..12)
    level,           \* granularity of the range search in progress
    days,            \* days of the month being bisected (getDaysInRange)
    i,               \* start index of the week chunk (0-based, as in the code)
    d,               \* index of the day searched (0-based, as in the code)
    search,          \* searchCommitsInRange: range, page, commits, totalCount, incomplete
    result,          \* searchAllCommitsByUser: result
    allCommits,      \* the output list
    seenShas,        \* the seen-set
    snapshot,        \* what generateWrapped returns
    faulted,         \* history: a request of this run has failed
    issued,          \* history: the range searches issued, in order
    observed,        \* history: every commit handed to the deduplication, in order
    monthTruncated,  \* history: a range search of this month reported incomplete
    keptIncomplete,  \* history: a range search whose commits were kept was incomplete
    bisected,        \* history: the month-level result of this month was discarded
    sources,         \* history: <<level, number of commits>> pushed to result this month
    discarded,       \* history: the month-level commits dropped when this month was split
    run,             \* history: 1 in the first crawl of the upstream, 2 in the second
    firstRun,        \* history: the list the first crawl returned
    input,           \* analyzeCommits: commits
    analysis,        \* what analyzeCommits returns
    categories,      \* history: the category of each commit, in the order of the input
    request,         \* handleRequest: what the request carries
    response,        \* what the caller is answered with
    cache,           \* caches.default: the entry under the request's cache key
    outbound         \* history: the calls made to GitHub besides the range searches

vars ==
    <<impl, scenario, year, pc, months, monthIdx, level, days, i, d, search, result,
      allCommits, seenShas, snapshot, faulted, issued, observed, monthTruncated,
      keptIncomplete, bisected, sources, discarded, run, firstRun, input, analysis, categories,
      request, response, cache, outbound>>

runVars == <<impl, scenario, year, run, firstRun>>
anVars == <<input, analysis, categories>>
histVars == <<faulted, issued, observed, monthTruncated, keptIncomplete, bisected, sources, discarded>>
httpVars == <<request, response, cache, outbound>>

upstream == Scenario(scenario)

NoRange == <<0, 0, 0>>

\* the locals of searchCommitsInRange at its start
NewSearch(startDate, endDate) ==
    [start |-> startDate, end |-> endDate, page |-> 1, commits |-> <<>>,
     totalCount |-> 0, incomplete |-> FALSE]

EmptyResult == [commits |-> <<>>, totalCount |-> 0, incomplete |-> FALSE]

\* nothing has been answered yet
NoResponse == <<>>

\* caches.default holds no entry under the cache key
NoCache == <<>>

\* null or undefined, where a string may stand
Absent == "<null>"

\* a property that an object does not have
Undefined == "<undefined>"

\* what `!v` lets through
Truthy(v) == v \notin {Absent, Undefined, ""}

\* the worker's bindings: every one set
Env == [GITHUB_CLIENT_ID |-> "client-id", GITHUB_CLIENT_SECRET |-> "client-secret",
        APP_URL |-> "https://wrapped.example", OAUTH_REDIRECT_URI |-> Undefined,
        GITHUB_TOKEN |-> Undefined, WRAPPED_WORKFLOW |-> "GitHubWrappedWorkflow"]

\* the subject of the run
Subject == "octocat"

\* a request for the subject's year, as it reaches generateWrapped or
\* GitHubWrappedWorkflow.run
SubjectRequest(path) ==
    [path |-> path, username |-> Subject, token |-> Absent, code |-> Absent,
     state |-> Absent, cookie |-> <<>>, env |-> Env]

\* the locals of a run before its first step
InitLocals ==
    /\ months = <<>>
    /\ monthIdx = 0
    /\ level = "none"
    /\ days = <<>>
    /\ i = 0
    /\ d = 0
    /\ search = NewSearch(NoRange, NoRange)
    /\ result = EmptyResult
    /\ allCommits = <<>>
    /\ seenShas = {}
    /\ snapshot = <<>>
    /\ faulted = FALSE
    /\ issued = <<>>
    /\ observed = <<>>
    /\ monthTruncated = FALSE
    /\ keptIncomplete = FALSE
    /\ bisected = FALSE
    /\ sources = <<>>
    /\ discarded = <<>>

InitRun ==
    /\ pc = "start"
    /\ response = NoResponse
    /\ cache = NoCache
    /\ outbound = <<>>
    /\ InitLocals

\* no analysis has run
NoAnalysis == <<>>

Init ==
    /\ impl \in Implementations
    /\ scenario \in ScenarioNames
    /\ year = Scenario(scenario).year
    /\ run = 1
    /\ firstRun = <<>>
    /\ input = <<>>
    /\ analysis = NoAnalysis
    /\ categories = <<>>
    /\ request = SubjectRequest(IF impl = "worker" THEN "/api/wrapped"
                                ELSE "/api/workflow/start")
    /\ InitRun

----------------------------------------------------------------------------
(* searchCommitsInRange: one iteration of its while (true) loop *)

\* the loop body after a page was read, in the worker: [s: the locals, finished]
AfterPageWorker(s, items, total) ==
    LET s1 == [s EXCEPT !.totalCount = total]
        s2 == [s1 EXCEPT !.commits = s.commits \o items]
    IN  IF Len(items) = 0 THEN [s |-> s1, finished |-> TRUE]
        ELSE IF s.page >= MaxPages
             THEN [s |-> [s2 EXCEPT !.incomplete = s.incomplete \/ total > ResultCap],
                   finished |-> TRUE]
        ELSE IF Len(items) < PerPage THEN [s |-> s2, finished |-> TRUE]
        ELSE [s |-> [s2 EXCEPT !.page = s.page + 1], finished |-> FALSE]

\* the same in the workflow: page 10 ends the loop only together with totalCount > 1000
AfterPageWorkflow(s, items, total) ==
    LET s1 == [s EXCEPT !.totalCount = total]
        s2 == [s1 EXCEPT !.commits = s.commits \o items]
    IN  IF Len(items) = 0 THEN [s |-> s1, finished |-> TRUE]
        ELSE IF s.page >= MaxPages /\ total > ResultCap
             THEN [s |-> [s2 EXCEPT !.incomplete = TRUE], finished |-> TRUE]
        ELSE IF Len(items) < PerPage THEN [s |-> s2, finished |-> TRUE]
        ELSE [s |-> [s2 EXCEPT !.page = s.page + 1], finished |-> FALSE]

AfterPage(s, items, total) ==
    IF impl = "worker" THEN AfterPageWorker(s, items, total)
    ELSE AfterPageWorkflow(s, items, total)

\* a slip: only 422 sets incomplete
AfterStatusOnly422(s, status) ==
    IF status = 422 THEN [s EXCEPT !.incomplete = TRUE] ELSE s

\* !response.ok: 403 and 422 set incomplete, every status breaks the loop
AfterStatus(s, status) ==
    IF status = 403 \/ status = 422 THEN [s EXCEPT !.incomplete = TRUE] ELSE s

\* searchCommitsInRange returns { commits, totalCount, incomplete }
Finish(s) ==
    /\ search' = s
    /\ pc' = "return"
    /\ monthTruncated' = (monthTruncated \/ s.incomplete)

Fetching == pc = "fetch" /\ search.page <= MaxPages + MaxProbe

\* whether the request of the loop's iteration may be answered with status
MayAnswer(status) == Answers(upstream, search.start, search.end, search.page, status)

\* the upstream answers the page
FetchPage ==
    /\ Fetching
    /\ ~BeyondCap(upstream, search.page)
    /\ MayAnswer(200)
    /\ LET r == AfterPage(search,
                          UpstreamItems(upstream, search.start, search.end, search.page),
                          UpstreamTotal(upstream, search.start, search.end))
       IN  IF r.finished THEN Finish(r.s)
           ELSE search' = r.s /\ pc' = "fetch" /\ monthTruncated' = monthTruncated
    /\ UNCHANGED <<runVars, httpVars, anVars, months, monthIdx, level, days, i, d, result, allCommits,
                   seenShas, snapshot, faulted, issued, observed, keptIncomplete,
                   bisected, sources, discarded>>

\* a slip: a page that failed otherwise than with 403 or 422 is requested again
FetchFailsRetrying(status) ==
    /\ IF status \in {403, 422}
       THEN Finish(AfterStatus(search, status))
       ELSE search' = search /\ pc' = "fetch" /\ monthTruncated' = monthTruncated
    /\ UNCHANGED <<runVars, httpVars, anVars, months, monthIdx, level, days, i, d, result,
                   allCommits, seenShas, snapshot, issued, observed, keptIncomplete,
                   bisected, sources, discarded>>

\* the loop is left on a failed request
FetchFails(status) ==
    /\ Finish(AfterStatus(search, status))
    /\ UNCHANGED <<runVars, httpVars, anVars, months, monthIdx, level, days, i, d, result, allCommits,
                   seenShas, snapshot, issued, observed, keptIncomplete, bisected,
                   sources, discarded>>

\* GitHub refuses a page beyond the first 1000 results
FetchBeyondCap ==
    /\ Fetching
    /\ BeyondCap(upstream, search.page)
    /\ FetchFails(422)
    /\ faulted' = faulted

\* rate limit or quota exhausted
Fetch403 ==
    /\ Fetching
    /\ ~BeyondCap(upstream, search.page)
    /\ MayAnswer(403)
    /\ FetchFails(403)
    /\ faulted' = TRUE

\* the query is refused as too broad
Fetch422 ==
    /\ Fetching
    /\ ~BeyondCap(upstream, search.page)
    /\ MayAnswer(422)
    /\ FetchFails(422)
    /\ faulted' = TRUE

\* any other HTTP error status
FetchOtherStatus ==
    /\ Fetching
    /\ ~BeyondCap(upstream, search.page)
    /\ MayAnswer(500)
    /\ FetchFails(500)
    /\ faulted' = TRUE

\* fetch or response.json() throws: the catch block breaks the loop
FetchThrows ==
    /\ Fetching
    /\ ~BeyondCap(upstream, search.page)
    /\ MayAnswer(0)
    /\ FetchFails(0)
    /\ faulted' = TRUE

----------------------------------------------------------------------------
(* generateWrapped and searchAllCommitsByUser / GitHubWrappedWorkflow.run *)

\* a slip: the commits collected are counted, not the total reported
NeedsSplitByLength(r) == r.incomplete /\ Len(r.commits) > ResultCap

\* result.incomplete && result.totalCount > 1000
NeedsSplit(r) == r.incomplete /\ r.totalCount > ResultCap

\* a slip: i + 5, chunks of six days
ChunkEndShort(idx, ds) == Min(idx + 5, Len(ds) - 1)

\* Math.min(i + 6, days.length - 1): index of the last day of the chunk at idx
ChunkEnd(idx, ds) == Min(idx + 6, Len(ds) - 1)

\* the element at a 0-based index of a list
At(list, idx) == list[idx + 1]

\* result.commits.push(...r.commits)
PushAll(res, commits) == [res EXCEPT !.commits = res.commits \o commits]

\* a slip: the commit is pushed whether or not its sha was seen
DedupStepNoCheck(acc, sha) ==
    [list |-> Append(acc.list, sha), seen |-> acc.seen \cup {sha}]

\* "Add commits, deduplicating by SHA": the body of the loop, on
\* acc = [list: allCommits, seen: seenShas]
DedupStep(acc, sha) ==
    IF sha \in acc.seen THEN acc
    ELSE [list |-> Append(acc.list, sha), seen |-> acc.seen \cup {sha}]

\* the loop over commits[lo..hi], in order.  It is evaluated by halves, the
\* left half first and its seen-set enumerated, which keeps the evaluation
\* shallow on lists of a thousand commits.
RECURSIVE DedupRange(_, _, _, _)
DedupRange(acc, commits, lo, hi) ==
    IF lo > hi THEN acc
    ELSE IF lo = hi THEN DedupStep(acc, commits[lo])
    ELSE LET mid == (lo + hi) \div 2
         IN  CHOOSE r \in
                 { DedupRange([list |-> left.list, seen |-> {x : x \in left.seen}],
                              commits, mid + 1, hi) :
                       left \in { DedupRange(acc, commits, lo, mid) } } : TRUE

Dedup(list, seen, commits) ==
    DedupRange([list |-> list, seen |-> seen], commits, 1, Len(commits))

\* a call of searchCommitsInRange begins
StartSearch(lvl, startDate, endDate) ==
    /\ level' = lvl
    /\ search' = NewSearch(startDate, endDate)
    /\ issued' = Append(issued, <<lvl, startDate, endDate>>)
    /\ pc' = "fetch"

\* the for loop over the week chunks moves to the chunk at index idx
NextChunk(idx, ds) ==
    /\ i' = idx
    /\ IF idx < Len(ds)
       THEN StartSearch("week", At(ds, idx), At(ds, ChunkEnd(idx, ds)))
       ELSE /\ pc' = "merge"
            /\ UNCHANGED <<level, search, issued>>

\* the user lookup of the run, with how it ended
UserLookup(outcome) == <<"/users/" \o Subject, outcome>>

\* getUserInfo succeeds
GetUserInfo ==
    /\ pc = "start"
    /\ outbound' = Append(outbound, UserLookup("ok"))
    /\ pc' = "init"
    /\ UNCHANGED <<runVars, request, response, cache, anVars, months, monthIdx, level,
                   days, i, d, search, result, allCommits, seenShas, snapshot, faulted,
                   issued, observed, monthTruncated, keptIncomplete, bisected, sources, discarded>>

\* what the caller gets when the run throws: handleRequest catches the error
\* and answers 500; a workflow instance ends as errored, without output
ErrorAnswer(copy) ==
    IF copy = "worker"
    THEN [status |-> 500, error |-> "GitHub API error",
          details |-> "Failed to generate GitHub wrapped data. Please check the username and try again."]
    ELSE [instance |-> "errored", error |-> "GitHub API error"]

\* a slip: the failed lookup is logged and the run goes on
GetUserInfoFailsIgnored ==
    /\ pc = "start"
    /\ outbound' = Append(outbound, UserLookup("failed"))
    /\ faulted' = TRUE
    /\ pc' = "init"
    /\ UNCHANGED <<runVars, request, response, cache, anVars, months, monthIdx, level,
                   days, i, d, search, result, allCommits, seenShas, snapshot,
                   issued, observed, monthTruncated, keptIncomplete, bisected, sources, discarded>>

\* getUserInfo throws (the workflow's step fails after its retries): the run
\* ends there
GetUserInfoFails ==
    /\ pc = "start"
    /\ outbound' = Append(outbound, UserLookup("failed"))
    /\ faulted' = TRUE
    /\ response' = ErrorAnswer(impl)
    /\ pc' = "failed"
    /\ UNCHANGED <<runVars, request, cache, anVars, months, monthIdx, level,
                   days, i, d, search, result, allCommits, seenShas, snapshot,
                   issued, observed, monthTruncated, keptIncomplete, bisected, sources, discarded>>

\* a slip: the seen-set outlives the call (a module-level Set)
StaleCrawl == [allCommits |-> <<>>, seenShas |-> seenShas]

\* const allCommits = []; const seenShas = new Set()
NewCrawl == [allCommits |-> <<>>, seenShas |-> {}]

\* searchAllCommitsByUser begins: the output list and the seen-set are
\* created and the 12 month ranges are built
BuildMonths ==
    /\ pc = "init"
    /\ allCommits' = NewCrawl.allCommits
    /\ seenShas' = NewCrawl.seenShas
    /\ months' = MonthRanges(year)
    /\ monthIdx' = 1
    /\ pc' = "month"
    /\ UNCHANGED <<runVars, httpVars, anVars, level, days, i, d, search, result, snapshot,
                   faulted, issued, observed, monthTruncated, keptIncomplete, bisected,
                   sources, discarded>>

\* for (const month of months): the month-level search is issued
BeginMonth ==
    /\ pc = "month"
    /\ StartSearch("month", months[monthIdx].start, months[monthIdx].end)
    /\ monthTruncated' = FALSE
    /\ bisected' = FALSE
    /\ sources' = <<>>
    /\ discarded' = <<>>
    /\ UNCHANGED <<runVars, httpVars, anVars, months, monthIdx, days, i, d, result,
                   allCommits, seenShas, snapshot, faulted, observed, keptIncomplete>>

\* the month-level result is taken as the month's result
MonthAccept ==
    /\ pc = "return" /\ level = "month"
    /\ ~NeedsSplit(search)
    /\ result' = [commits |-> search.commits, totalCount |-> search.totalCount,
                  incomplete |-> search.incomplete]
    /\ keptIncomplete' = (keptIncomplete \/ search.incomplete)
    /\ sources' = << <<"month", Len(search.commits)>> >>
    /\ discarded' = discarded
    /\ pc' = "merge"
    /\ UNCHANGED <<runVars, httpVars, anVars, months, monthIdx, level, days, i, d, search,
                   allCommits, seenShas, snapshot, faulted, issued, observed,
                   monthTruncated, bisected>>

\* the month-level result is discarded and the month is split into week chunks
MonthBisect ==
    /\ pc = "return" /\ level = "month"
    /\ NeedsSplit(search)
    /\ result' = EmptyResult
    /\ days' = GetDaysInRange(months[monthIdx].start, months[monthIdx].end)
    /\ bisected' = TRUE
    /\ discarded' = search.commits
    /\ NextChunk(0, days')
    /\ UNCHANGED <<runVars, httpVars, anVars, months, monthIdx, d, allCommits, seenShas,
                   snapshot, faulted, observed, monthTruncated, keptIncomplete,
                   sources>>

\* the week-level result is pushed to the month's result
WeekAccept ==
    /\ pc = "return" /\ level = "week"
    /\ ~NeedsSplit(search)
    /\ result' = PushAll(result, search.commits)
    /\ keptIncomplete' = (keptIncomplete \/ search.incomplete)
    /\ sources' = Append(sources, <<"week", Len(search.commits)>>)
    /\ discarded' = discarded
    /\ NextChunk(i + ChunkDays, days)
    /\ UNCHANGED <<runVars, httpVars, anVars, months, monthIdx, days, d, allCommits,
                   seenShas, snapshot, faulted, observed, monthTruncated, bisected>>

\* a slip: the week-level commits are pushed before the days are searched
WeekBisectKeepsWeek ==
    /\ pc = "return" /\ level = "week"
    /\ NeedsSplit(search)
    /\ result' = PushAll(result, search.commits)
    /\ d' = i
    /\ StartSearch("day", At(days, i), At(days, i))
    /\ UNCHANGED <<runVars, httpVars, anVars, months, monthIdx, days, i, allCommits,
                   seenShas, snapshot, faulted, observed, monthTruncated,
                   keptIncomplete, bisected, sources, discarded>>

\* the week-level result is discarded and the chunk is searched day by day
WeekBisect ==
    /\ pc = "return" /\ level = "week"
    /\ NeedsSplit(search)
    /\ d' = i
    /\ StartSearch("day", At(days, i), At(days, i))
    /\ UNCHANGED <<runVars, httpVars, anVars, months, monthIdx, days, i, result, allCommits,
                   seenShas, snapshot, faulted, observed, monthTruncated,
                   keptIncomplete, bisected, sources, discarded>>

\* a day-level result is pushed as it is
DayAccept ==
    /\ pc = "return" /\ level = "day"
    /\ result' = PushAll(result, search.commits)
    /\ keptIncomplete' = (keptIncomplete \/ search.incomplete)
    /\ sources' = Append(sources, <<"day", Len(search.commits)>>)
    /\ discarded' = discarded
    /\ d' = d + 1
    /\ IF d + 1 <= ChunkEnd(i, days)
       THEN StartSearch("day", At(days, d + 1), At(days, d + 1)) /\ i' = i
       ELSE NextChunk(i + ChunkDays, days)
    /\ UNCHANGED <<runVars, httpVars, anVars, months, monthIdx, days, allCommits, seenShas,
                   snapshot, faulted, observed, monthTruncated, bisected>>

\* a slip: the loop moves to the next month and leaves the merge for later
MergeSkipped ==
    /\ pc = "merge"
    /\ observed' = observed \o result.commits
    /\ IF monthIdx < Len(months)
       THEN monthIdx' = monthIdx + 1 /\ pc' = "month"
       ELSE monthIdx' = monthIdx /\ pc' = "crawled"
    /\ UNCHANGED <<runVars, httpVars, anVars, months, level, days, i, d, search, result,
                   allCommits, seenShas, snapshot, faulted, issued, monthTruncated,
                   keptIncomplete, bisected, sources, discarded>>

\* the month's result is merged into the output list
Merge ==
    /\ pc = "merge"
    /\ LET r == Dedup(allCommits, seenShas, result.commits)
       IN  allCommits' = r.list /\ seenShas' = r.seen
    /\ observed' = observed \o result.commits
    /\ IF monthIdx < Len(months)
       THEN monthIdx' = monthIdx + 1 /\ pc' = "month"
       ELSE monthIdx' = monthIdx /\ pc' = "crawled"
    /\ UNCHANGED <<runVars, httpVars, anVars, months, level, days, i, d, search, result,
                   snapshot, faulted, issued, monthTruncated, keptIncomplete, bisected,
                   sources, discarded>>

----------------------------------------------------------------------------
(* analyzeCommits.  A string is the sequence of its characters; a commit's  *)
(* date is its committer timestamp in hours since 1970-01-01T00:00Z.        *)

UpperCase ==
    <<"A", "B", "C", "D", "E", "F", "G", "H", "I", "J", "K", "L", "M",
      "N", "O", "P", "Q", "R", "S", "T", "U", "V", "W", "X", "Y", "Z">>

LowerCase ==
    <<"a", "b", "c", "d", "e", "f", "g", "h", "i", "j", "k", "l", "m",
      "n", "o", "p", "q", "r", "s", "t", "u", "v", "w", "x", "y", "z">>

\* String.prototype.toLowerCase on the letters A to Z
ToLowerCase(str) ==
    [k \in 1..Len(str) |->
        IF \E n \in 1..Len(UpperCase) : UpperCase[n] = str[k]
        THEN LowerCase[CHOOSE n \in 1..Len(UpperCase) : UpperCase[n] = str[k]]
        ELSE str[k]]

\* String.prototype.includes
Includes(str, kw) ==
    \E k \in 1..(Len(str) - Len(kw) + 1) : SubSeq(str, k, k + Len(kw) - 1) = kw

\* keywords.some(kw => msg.includes(kw))
SomeIncluded(keywords, msg) == \E n \in 1..Len(keywords) : Includes(msg, keywords[n])

\* const bugKeywords
bugKeywords ==
    << <<"f", "i", "x">>,
       <<"b", "u", "g">>,
       <<"i", "s", "s", "u", "e">>,
       <<"e", "r", "r", "o", "r">>,
       <<"p", "r", "o", "b", "l", "e", "m">>,
       <<"b", "r", "o", "k", "e", "n">>,
       <<"f", "a", "i", "l", "i", "n", "g">>,
       <<"d", "e", "b", "u", "g">>,
       <<"r", "e", "v", "e", "r", "t">>,
       <<"h", "o", "t", "f", "i", "x">>,
       <<"p", "a", "t", "c", "h">>,
       <<"c", "r", "a", "s", "h">>,
       <<"w", "o", "r", "k", "a", "r", "o", "u", "n", "d">> >>

\* const featureKeywords
featureKeywords ==
    << <<"a", "d", "d">>,
       <<"i", "m", "p", "l", "e", "m", "e", "n", "t">>,
       <<"c", "r", "e", "a", "t", "e">>,
       <<"n", "e", "w">>,
       <<"f", "e", "a", "t", "u", "r", "e">>,
       <<"s", "u", "p", "p", "o", "r", "t">>,
       <<"e", "n", "a", "b", "l", "e">>,
       <<"i", "n", "t", "r", "o", "d", "u", "c", "e">> >>

\* const refactorKeywords
refactorKeywords ==
    << <<"r", "e", "f", "a", "c", "t", "o", "r">>,
       <<"c", "l", "e", "a", "n", "u", "p">>,
       <<"i", "m", "p", "r", "o", "v", "e">>,
       <<"o", "p", "t", "i", "m", "i", "z", "e">>,
       <<"r", "e", "o", "r", "g", "a", "n", "i", "z", "e">>,
       <<"s", "i", "m", "p", "l", "i", "f", "y">>,
       <<"r", "e", "s", "t", "r", "u", "c", "t", "u", "r", "e">>,
       <<"r", "e", "n", "a", "m", "e">>,
       <<"m", "o", "v", "e">> >>

\* const docsKeywords
docsKeywords ==
    << <<"d", "o", "c">>,
       <<"r", "e", "a", "d", "m", "e">>,
       <<"c", "o", "m", "m", "e", "n", "t">>,
       <<"d", "o", "c", "u", "m", "e", "n", "t", "a", "t", "i", "o", "n">>,
       <<"t", "y", "p", "o">>,
       <<"s", "p", "e", "l", "l", "i", "n", "g">> >>

\* const testKeywords
testKeywords ==
    << <<"t", "e", "s", "t">>,
       <<"s", "p", "e", "c">>,
       <<"c", "o", "v", "e", "r", "a", "g", "e">>,
       <<"j", "e", "s", "t">>,
       <<"m", "o", "c", "h", "a">>,
       <<"c", "y", "p", "r", "e", "s", "s">> >>

\* a slip: the feature keywords are tested before the bug keywords
CategorizeFeatureFirst(message) ==
    LET msg == ToLowerCase(message)
    IN  IF SomeIncluded(featureKeywords, msg) THEN "feature"
        ELSE IF SomeIncluded(bugKeywords, msg) THEN "fix"
        ELSE IF SomeIncluded(refactorKeywords, msg) THEN "refactor"
        ELSE IF SomeIncluded(docsKeywords, msg) THEN "docs"
        ELSE IF SomeIncluded(testKeywords, msg) THEN "test"
        ELSE "other"

\* "Categorize commit": the category of a commit with this message
Categorize(message) ==
    LET msg == ToLowerCase(message)
    IN  IF SomeIncluded(bugKeywords, msg) THEN "fix"
        ELSE IF SomeIncluded(featureKeywords, msg) THEN "feature"
        ELSE IF SomeIncluded(refactorKeywords, msg) THEN "refactor"
        ELSE IF SomeIncluded(docsKeywords, msg) THEN "docs"
        ELSE IF SomeIncluded(testKeywords, msg) THEN "test"
        ELSE "other"

\* date.toISOString().split('T')[0] of new Date(commit.date)
DateStr(commit) == ToISODate(commit.date \div 24)

\* Array.prototype.sort() on date strings: ascending code-unit order
RECURSIVE SortStrings(_)
SortStrings(S) ==
    IF S = {} THEN <<>>
    ELSE LET least == CHOOSE a \in S : \A b \in S : DateLE(a, b)
         IN  <<least>> \o SortStrings(S \ {least})

\* null
Null == <<>>

\* the variables of the streak loop before its first iteration
StreakStart ==
    [currentStreak |-> 0, longestStreak |-> 0, longestStreakStart |-> Null,
     longestStreakEnd |-> Null, tempStreakStart |-> Null]

\* Math.round((curr - prev) / (1000 * 60 * 60 * 24))
DiffDays(prevStr, currStr) == ParseDate(currStr) - ParseDate(prevStr)

\* a slip: a gap of one missing day still continues the streak
StreakStepLoose(st, sortedDates, idx) ==
    IF idx = 0
    THEN [st EXCEPT !.currentStreak = 1, !.tempStreakStart = At(sortedDates, idx)]
    ELSE IF DiffDays(At(sortedDates, idx - 1), At(sortedDates, idx)) <= 2
    THEN [st EXCEPT !.currentStreak = st.currentStreak + 1]
    ELSE LET closed ==
                 IF st.currentStreak > st.longestStreak
                 THEN [st EXCEPT !.longestStreak = st.currentStreak,
                                 !.longestStreakStart = st.tempStreakStart,
                                 !.longestStreakEnd = At(sortedDates, idx - 1)]
                 ELSE st
         IN  [closed EXCEPT !.currentStreak = 1,
                            !.tempStreakStart = At(sortedDates, idx)]

\* one iteration of the streak loop, at the 0-based index idx
StreakStep(st, sortedDates, idx) ==
    IF idx = 0
    THEN [st EXCEPT !.currentStreak = 1, !.tempStreakStart = At(sortedDates, idx)]
    ELSE IF DiffDays(At(sortedDates, idx - 1), At(sortedDates, idx)) = 1
    THEN [st EXCEPT !.currentStreak = st.currentStreak + 1]
    ELSE LET closed ==
                 IF st.currentStreak > st.longestStreak
                 THEN [st EXCEPT !.longestStreak = st.currentStreak,
                                 !.longestStreakStart = st.tempStreakStart,
                                 !.longestStreakEnd = At(sortedDates, idx - 1)]
                 ELSE st
         IN  [closed EXCEPT !.currentStreak = 1,
                            !.tempStreakStart = At(sortedDates, idx)]

\* the streak loop from index idx on
RECURSIVE StreakLoop(_, _, _)
StreakLoop(st, sortedDates, idx) ==
    IF idx >= Len(sortedDates) THEN st
    ELSE StreakLoop(StreakStep(st, sortedDates, idx), sortedDates, idx + 1)

\* "Check final streak"
FinalStreak(st, sortedDates) ==
    IF st.currentStreak > st.longestStreak
    THEN [st EXCEPT !.longestStreak = st.currentStreak,
                    !.longestStreakStart = st.tempStreakStart,
                    !.longestStreakEnd = At(sortedDates, Len(sortedDates) - 1)]
    ELSE st

\* "Calculate streaks", from the map of commits per date
Streaks(commitsByDate) ==
    LET sortedDates == SortStrings(DOMAIN commitsByDate)
        st == FinalStreak(StreakLoop(StreakStart, sortedDates, 0), sortedDates)
    IN  [longestStreak |-> st.longestStreak,
         longestStreakStart |-> st.longestStreakStart,
         longestStreakEnd |-> st.longestStreakEnd,
         totalActiveDays |-> Len(sortedDates),
         commitsByDate |-> commitsByDate]

\* a slip: the counter of the test commits is named as their category
CounterOfTestSingular(category) ==
    CASE category = "fix" -> "fixes"
      [] category = "feature" -> "features"
      [] category = "refactor" -> "refactors"
      [] category = "docs" -> "docs"
      [] category = "test" -> "test"
      [] OTHER -> "other"

\* the category counters of a repository entry
CounterOf(category) ==
    CASE category = "fix" -> "fixes"
      [] category = "feature" -> "features"
      [] category = "refactor" -> "refactors"
      [] category = "docs" -> "docs"
      [] category = "test" -> "tests"
      [] OTHER -> "other"

\* the local `category` of each iteration of the loop over the commits
CategoriesOf(commits) == [k \in 1..Len(commits) |-> Categorize(commits[k].message)]

\* date.getUTCHours()
GetUTCHours(commit) == commit.date % 24

\* date.getUTCDay(), 0 = Sunday; 1970-01-01 was a Thursday
GetUTCDay(commit) == ((commit.date \div 24) + 4) % 7

\* date.getUTCMonth(), 0 = January
GetUTCMonth(commit) == MonthFromDay(commit.date \div 24)

\* a slip: the slice begins after `from`
RECURSIVE SliceSumAfter(_, _, _)
SliceSumAfter(arr, from, to) ==
    IF from + 1 >= to THEN 0 ELSE arr[from + 1] + SliceSumAfter(arr, from + 1, to)

\* arr.slice(from, to).reduce((a, b) => a + b, 0) on a 0-based array
RECURSIVE SliceSum(_, _, _)
SliceSum(arr, from, to) ==
    IF from >= to THEN 0 ELSE arr[from] + SliceSum(arr, from + 1, to)

\* arr.indexOf(Math.max(...arr)) on a 0-based array
IndexOfMax(arr) ==
    CHOOSE k \in DOMAIN arr :
        /\ \A j \in DOMAIN arr : arr[j] <= arr[k]
        /\ \A j \in DOMAIN arr : j < k => arr[j] < arr[k]

dayNames ==
    <<"Sunday", "Monday", "Tuesday", "Wednesday", "Thursday", "Friday", "Saturday">>

monthNames ==
    <<"January", "February", "March", "April", "May", "June", "July", "August",
      "September", "October", "November", "December">>

\* a slip: at least half of the weekday count is enough
IsWeekendWarriorAtLeast(weekendCommits, weekdayCommits) ==
    2 * weekendCommits >= weekdayCommits

\* weekendCommits > weekdayCommits * 0.5; halving a count is exact in a
\* double, so the comparison is the one of the doubled weekend count
IsWeekendWarrior(weekendCommits, weekdayCommits) ==
    2 * weekendCommits > weekdayCommits

\* "Night owl vs early bird": the if / else-if chain on the four buckets
CodingStyle(nightCommits, morningCommits, afternoonCommits, eveningCommits) ==
    IF nightCommits > Max(morningCommits, Max(afternoonCommits, eveningCommits))
    THEN "night-owl"
    ELSE IF morningCommits > Max(afternoonCommits, eveningCommits)
    THEN "early-bird"
    ELSE IF eveningCommits > afternoonCommits
    THEN "evening-coder"
    ELSE "balanced"

\* the timeAnalysis object of analyzeCommits
TimeSummary(hourlyActivity, dailyActivity, monthlyActivity) ==
    LET peakHour == IndexOfMax(hourlyActivity)
        weekendCommits == dailyActivity[0] + dailyActivity[6]
        weekdayCommits == SliceSum(dailyActivity, 1, 6)
        nightCommits == SliceSum(hourlyActivity, 22, 24) + SliceSum(hourlyActivity, 0, 6)
        morningCommits == SliceSum(hourlyActivity, 6, 12)
        afternoonCommits == SliceSum(hourlyActivity, 12, 18)
        eveningCommits == SliceSum(hourlyActivity, 18, 22)
    IN  [hourlyActivity |-> hourlyActivity,
         dailyActivity |-> dailyActivity,
         monthlyActivity |-> monthlyActivity,
         peakHour |-> peakHour,
         peakDay |-> dayNames[IndexOfMax(dailyActivity) + 1],
         peakMonth |-> monthNames[IndexOfMax(monthlyActivity) + 1],
         weekendCommits |-> weekendCommits,
         weekdayCommits |-> weekdayCommits,
         isWeekendWarrior |-> IsWeekendWarrior(weekendCommits, weekdayCommits),
         codingStyle |->
             CodingStyle(nightCommits, morningCommits, afternoonCommits, eveningCommits),
         nightCommits |-> nightCommits,
         morningCommits |-> morningCommits,
         afternoonCommits |-> afternoonCommits,
         eveningCommits |-> eveningCommits]

\* the three histograms after the loop over the commits, and what is derived
\* from them
TimeAnalysis(commits) ==
    LET idx == 1..Len(commits)
    IN  TimeSummary(
            [h \in 0..23 |-> Cardinality({ k \in idx : GetUTCHours(commits[k]) = h })],
            [wd \in 0..6 |-> Cardinality({ k \in idx : GetUTCDay(commits[k]) = wd })],
            [mn \in 0..11 |-> Cardinality({ k \in idx : GetUTCMonth(commits[k]) = mn })])

\* a quotient of two counts; the code holds it in a double, here it is kept
\* exact as a numerator over a positive denominator
Quotient(a, b) == [num |-> a, den |-> b]

\* Math.ceil(ms / (1000 * 60 * 60 * 24)) of a time difference given in hours
CeilDays(hours) == (hours + 23) \div 24

\* const daySpan
DaySpan(firstCommit, lastCommit) == Max(1, CeilDays(lastCommit - firstCommit))

\* a slip: the span counts both its first and its last day
BlitzScoreInclusive(commitCount, activeDaysCount, daySpan) ==
    LET span == Max(daySpan, 1) + 1
    IN  Quotient(commitCount * (span - activeDaysCount), activeDaysCount * span)

\* repo.blitzScore = commitsPerActiveDay * (1 - activeDaysCount / Math.max(daySpan, 1));
\* the double is 0 exactly when the numerator is, since x / x is exactly 1
BlitzScore(commitCount, activeDaysCount, daySpan) ==
    LET span == Max(daySpan, 1)
    IN  Quotient(commitCount * (span - activeDaysCount), activeDaysCount * span)

\* the keys of repoMap in insertion order: repositories by first occurrence
RepoOrder(commits) ==
    LET idx == 1..Len(commits)
        repos == { commits[k].repo : k \in idx }
        firstAt(repo) ==
            CHOOSE k \in idx :
                commits[k].repo = repo /\ \A j \in 1..(k - 1) : commits[j].repo # repo
        rank(repo) == Cardinality({ r \in repos : firstAt(r) < firstAt(repo) })
    IN  [p \in 1..Cardinality(repos) |-> CHOOSE r \in repos : rank(r) = p - 1]

\* the entry of repoMap for one repository, after "Calculate per-repo metrics"
RepoEntry(commits, cats, repo) ==
    LET own == { k \in 1..Len(commits) : commits[k].repo = repo }
        count(counter) == Cardinality({ k \in own : CounterOf(cats[k]) = counter })
        commitCount == Cardinality(own)
        firstCommit == CHOOSE t \in { commits[k].date : k \in own } :
                           \A k \in own : t <= commits[k].date
        lastCommit == CHOOSE t \in { commits[k].date : k \in own } :
                          \A k \in own : t >= commits[k].date
        daySpan == DaySpan(firstCommit, lastCommit)
        activeDaysCount == Cardinality({ DateStr(commits[k]) : k \in own })
        fixes == count("fixes")
    IN  [fullName |-> repo,
         commitCount |-> commitCount,
         fixes |-> fixes,
         features |-> count("features"),
         refactors |-> count("refactors"),
         docs |-> count("docs"),
         tests |-> count("tests"),
         other |-> count("other"),
         firstCommit |-> firstCommit,
         lastCommit |-> lastCommit,
         activeDaysCount |-> activeDaysCount,
         daysSpan |-> daySpan,
         commitsPerActiveDay |-> Quotient(commitCount, activeDaysCount),
         problemRatio |-> Quotient(fixes, commitCount),
         velocity |-> Quotient(commitCount, daySpan),
         blitzScore |-> BlitzScore(commitCount, activeDaysCount, daySpan)]

\* analyzeCommits(commits): the repository entries with the order of their
\* keys, the time analysis and the streaks
AnalyzeCommitsOf(commits) ==
    LET idx == 1..Len(commits)
        cats == CategoriesOf(commits)
        repos == { commits[k].repo : k \in idx }
        dates == { DateStr(commits[k]) : k \in idx }
    IN  [repoMap |-> [repo \in repos |-> RepoEntry(commits, cats, repo)],
         repoOrder |-> RepoOrder(commits),
         timeAnalysis |-> TimeAnalysis(commits),
         streaks |->
            Streaks([ds \in dates |->
                        Cardinality({ k \in idx : DateStr(commits[k]) = ds })])]

\* a.x - b.x < 0 for two quotients
LessQ(a, b) == a.num * b.den < b.num * a.den

\* (a, b) => b.commitCount - a.commitCount
ByCommitCount(a, b) == b.commitCount < a.commitCount

\* (a, b) => b.commits - a.commits
ByCommits(a, b) == b.commits < a.commits

\* (a, b) => b.problemRatio - a.problemRatio
ByProblemRatio(a, b) == LessQ(b.problemRatio, a.problemRatio)

\* (a, b) => b.blitzScore - a.blitzScore
ByBlitzScore(a, b) == LessQ(b.blitzScore, a.blitzScore)

\* a slip: the fewest features come first
ByFeaturesAscending(a, b) == a.features < b.features

\* (a, b) => b.features - a.features
ByFeatures(a, b) == b.features < a.features

\* (a, b) => b.activeDays - a.activeDays
ByActiveDays(a, b) == b.activeDays < a.activeDays

\* the compare function of that name
Before(compare, a, b) ==
    CASE compare = "ByCommitCount" -> ByCommitCount(a, b)
      [] compare = "ByCommits" -> ByCommits(a, b)
      [] compare = "ByProblemRatio" -> ByProblemRatio(a, b)
      [] compare = "ByBlitzScore" -> ByBlitzScore(a, b)
      [] compare = "ByFeatures" -> ByFeatures(a, b)
      [] compare = "ByActiveDays" -> ByActiveDays(a, b)

\* [...list].sort(compare), where Before(a, b) is compare(a, b) < 0; the
\* sort is stable
Sort(list, compare) ==
    LET n == Len(list)
        rank(k) ==
            Cardinality({ j \in 1..n :
                \/ Before(compare, list[j], list[k])
                \/ ~Before(compare, list[k], list[j]) /\ j < k })
    IN  [p \in 1..n |-> list[CHOOSE k \in 1..n : rank(k) = p - 1]]

\* list[0] || null
First(list) == IF Len(list) = 0 THEN Null ELSE list[1]

\* the entry pushed to repoContributions for a repository
Contribution(repoData) ==
    [fullName |-> repoData.fullName,
     commits |-> repoData.commitCount,
     fixes |-> repoData.fixes,
     features |-> repoData.features,
     refactors |-> repoData.refactors,
     problemRatio |-> repoData.problemRatio,
     velocity |-> repoData.velocity,
     blitzScore |-> repoData.blitzScore,
     activeDays |-> repoData.activeDaysCount]

\* a slip: the entries are taken in the iteration order of repoMap
RepoContributionsUnsorted(an) ==
    [k \in 1..Len(an.repoOrder) |-> Contribution(an.repoMap[an.repoOrder[k]])]

\* repoContributions: the entries of repoMap sorted by commit count, turned
\* into contributions and sorted by commits again
RepoContributions(an) ==
    LET values == [k \in 1..Len(an.repoOrder) |-> an.repoMap[an.repoOrder[k]]]
        allRepoData == Sort(values, "ByCommitCount")
    IN  Sort([k \in 1..Len(allRepoData) |-> Contribution(allRepoData[k])], "ByCommits")

\* a slip: ten commits are enough
EligibleBlitzAtLeast(r) == r.commits >= 10

\* filter(r => r.fixes > 3)
EligibleProblematic(r) == r.fixes > 3

\* filter(r => r.commits > 10)
EligibleBlitz(r) == r.commits > 10

\* filter(r => r.activeDays > 5)
EligibleSteadiest(r) == r.activeDays > 5

\* Math.round(q * 100) of a quotient that is not negative
RoundPercent(q) == (200 * q.num + q.den) \div (2 * q.den)

\* "Calculate special repo categories" and the repoHighlights object
RepoHighlights(repoContributions) ==
    LET mostActiveRepo == First(repoContributions)
        mostProblematicRepo ==
            First(Sort(SelectSeq(repoContributions, EligibleProblematic), "ByProblemRatio"))
        blitzRepo ==
            First(Sort(SelectSeq(repoContributions, EligibleBlitz), "ByBlitzScore"))
        mostFeatureRepo == First(Sort(repoContributions, "ByFeatures"))
        steadiestRepo ==
            First(Sort(SelectSeq(repoContributions, EligibleSteadiest), "ByActiveDays"))
    IN  [mostActive |->
             IF mostActiveRepo = Null THEN Null
             ELSE [name |-> mostActiveRepo.fullName, commits |-> mostActiveRepo.commits],
         mostProblematic |->
             IF mostProblematicRepo = Null THEN Null
             ELSE [name |-> mostProblematicRepo.fullName,
                   fixes |-> mostProblematicRepo.fixes,
                   problemRatio |-> RoundPercent(mostProblematicRepo.problemRatio)],
         blitzRepo |->
             IF blitzRepo = Null THEN Null
             ELSE [name |-> blitzRepo.fullName, commits |-> blitzRepo.commits,
                   activeDays |-> blitzRepo.activeDays],
         mostFeatures |->
             IF mostFeatureRepo = Null THEN Null
             ELSE [name |-> mostFeatureRepo.fullName,
                   features |-> mostFeatureRepo.features],
         steadiest |->
             IF steadiestRepo = Null THEN Null
             ELSE [name |-> steadiestRepo.fullName,
                   activeDays |-> steadiestRepo.activeDays]]

\* repoContributions.reduce((sum, r) => sum + (r[field] || 0), 0)
RECURSIVE SumField(_, _, _)
SumField(list, field, k) ==
    IF k > Len(list) THEN 0 ELSE list[k][field] + SumField(list, field, k + 1)

\* dates.sort((a, b) => a - b): the timestamps in ascending order
SortDates(dates) ==
    LET n == Len(dates)
        rank(k) == Cardinality({ j \in 1..n : dates[j] < dates[k] \/ (dates[j] = dates[k] /\ j < k) })
    IN  [p \in 1..n |-> dates[CHOOSE k \in 1..n : rank(k) = p - 1]]

\* prepareCommitStats, "Calculate longest streak": the loop from index idx
\* (0-based) on, st = [currentStreak, maxStreak]
RECURSIVE PreparedStreakLoop(_, _, _)
PreparedStreakLoop(st, dates, idx) ==
    IF idx >= Len(dates) THEN st
    ELSE LET diffDays == (At(dates, idx) - At(dates, idx - 1)) \div 24
             next == IF diffDays <= 1
                     THEN [currentStreak |-> st.currentStreak + 1,
                           maxStreak |-> Max(st.maxStreak, st.currentStreak + 1)]
                     ELSE [currentStreak |-> 1, maxStreak |-> st.maxStreak]
         IN  PreparedStreakLoop(next, dates, idx + 1)

\* prepareCommitStats(commits): the statistics handed to the narrative
\* generator, of which total and longestStreak are kept
PrepareCommitStats(commits) ==
    LET dates == SortDates([k \in 1..Len(commits) |-> commits[k].date])
    IN  [total |-> Len(commits),
         longestStreak |->
             IF Len(dates) > 0
             THEN PreparedStreakLoop([currentStreak |-> 1, maxStreak |-> 1], dates, 1).maxStreak
             ELSE 0]

\* a slip: the rule-based analysis runs on an empty list as well
InsightsUnguarded(commits) == [totalCommits |-> Len(commits)]

\* insights: null without commits, else the object analyzeCommitsWithAI or
\* analyzeCommitMessages makes of them
Insights(commits) ==
    IF Len(commits) > 0 THEN [totalCommits |-> Len(commits)] ELSE Null

\* the object generateWrapped returns
Snapshot(yr, commits, an) ==
    LET repoContributions == RepoContributions(an)
        totalCommits == Len(commits)
        totalFixes == SumField(repoContributions, "fixes", 1)
        totalFeatures == SumField(repoContributions, "features", 1)
        totalRefactors == SumField(repoContributions, "refactors", 1)
    IN  [year |-> yr,
         stats |->
             [totalCommits |-> totalCommits,
              repositoriesContributed |-> Len(repoContributions),
              allRepositories |-> repoContributions,
              commitTypes |->
                  [fixes |-> totalFixes,
                   features |-> totalFeatures,
                   refactors |-> totalRefactors,
                   other |-> totalCommits - totalFixes - totalFeatures - totalRefactors]],
         repoHighlights |-> RepoHighlights(repoContributions),
         timeAnalysis |->
             [peakHour |-> an.timeAnalysis.peakHour,
              peakDay |-> an.timeAnalysis.peakDay,
              peakMonth |-> an.timeAnalysis.peakMonth,
              codingStyle |-> an.timeAnalysis.codingStyle,
              isWeekendWarrior |-> an.timeAnalysis.isWeekendWarrior,
              weekendCommits |-> an.timeAnalysis.weekendCommits,
              weekdayCommits |-> an.timeAnalysis.weekdayCommits,
              hourlyActivity |-> an.timeAnalysis.hourlyActivity,
              dailyActivity |-> an.timeAnalysis.dailyActivity,
              monthlyActivity |-> an.timeAnalysis.monthlyActivity],
         streaks |-> an.streaks,
         insights |-> Insights(commits),
         allCommits |-> commits]

\* generateWrapped from analyzeCommits on: the list analysed is `input`
AnalyzeCommits ==
    /\ pc = "analyze"
    /\ analysis' = AnalyzeCommitsOf(input)
    /\ categories' = CategoriesOf(input)
    /\ snapshot' = Snapshot(year, input, analysis')
    /\ pc' = "analyzed"
    /\ UNCHANGED <<runVars, httpVars, input, months, monthIdx, level, days, i, d, search, result,
                   allCommits, seenShas, histVars>>

\* what commit messages are made of
Phrases ==
    << <<"f", "i", "x", " ", "a", "n", "d", " ", "a", "d", "d", " ", "n", "e", "w", " ", "f", "e", "a", "t", "u", "r", "e">>,
       <<"F", "i", "x">>,
       <<"p", "r", "e", "f", "i", "x">>,
       <<"a", "d", "d", "r", "e", "s", "s">>,
       <<"N", "e", "w">>,
       <<"R", "e", "n", "a", "m", "e">>,
       <<"R", "E", "A", "D", "M", "E">>,
       <<"l", "a", "t", "e", "s", "t">>,
       <<"u", "p", "d", "a", "t", "e">>,
       <<"w", "i", "p">>,
       <<"D", "o", "c", "s">>,
       <<"i", "m", "p", "r", "o", "v", "e", " ", "t", "e", "s", "t", "s">> >>

\* at most this many phrases make a message
MaxPhrases == 2

\* the phrases at the indices ps, joined by single spaces
RECURSIVE JoinPhrases(_)
JoinPhrases(ps) ==
    IF Len(ps) = 1 THEN Phrases[ps[1]]
    ELSE Phrases[ps[1]] \o <<" ">> \o JoinPhrases(Tail(ps))

Messages ==
    { JoinPhrases(ps) :
          ps \in UNION { [1..n -> 1..Len(Phrases)] : n \in 1..MaxPhrases } }

\* the calendar days commits are made on: around a leap day, around a new
\* year, and one day apart from the others
CommitDays ==
    { <<2024, 2, 28>>, <<2024, 2, 29>>, <<2024, 3, 1>>, <<2024, 12, 30>>,
      <<2024, 12, 31>>, <<2025, 1, 1>>, <<2025, 1, 2>>, <<2025, 1, 3>>, <<2025, 1, 10>> }

\* a commit made on the calendar day `day` at `hour` o'clock UTC
CommitAt(day, hour, message, repo) ==
    [message |-> message, date |-> 24 * ParseDate(day) + hour, repo |-> repo]

\* commits on the days of D with the same message, latest day first (the
\* order of a search result) or earliest first, with a second commit on the
\* first listed day when again is set
CommitsOn(D, latestFirst, again, message) ==
    LET asc == SortStrings(D)
        n == Len(asc)
        listed == IF latestFirst THEN [k \in 1..n |-> asc[n + 1 - k]] ELSE asc
        one == [k \in 1..n |->
                   CommitAt(listed[k], (7 * k) % 24, message,
                            IF k % 2 = 1 THEN "octo/app" ELSE "octo/lib")]
    IN  IF again /\ n > 0
        THEN Append(one, CommitAt(listed[1], 23, message, "octo/app"))
        ELSE one

\* at most this many commits fall into one part of the day, or on one of
\* the days of a week
MaxPerBucket == 2

\* hours of the night, morning, afternoon and evening, in this order: the
\* first and the last hour of each part and two hours within
BucketHours ==
    { <<22, 6, 12, 18>>, <<23, 11, 17, 21>>, <<0, 8, 14, 19>>, <<5, 9, 15, 20>> }

\* n copies of a commit
Repeat(commit, n) == [k \in 1..n |-> commit]

\* counts[b] commits at hours[b] o'clock, for each of the four parts b
CommitsAtHours(counts, hours) ==
    LET at(b) == Repeat(CommitAt(<<2025, 1, 1>>, hours[b], Phrases[10], "octo/app"),
                        counts[b])
    IN  at(1) \o at(2) \o at(3) \o at(4)

\* a Saturday, a Sunday, a Monday and a Friday
WeekDays == << <<2025, 1, 4>>, <<2025, 1, 5>>, <<2025, 1, 6>>, <<2025, 1, 10>> >>

\* counts[b] commits on WeekDays[b], for each of the four days b
CommitsOnWeekDays(counts) ==
    LET at(b) == Repeat(CommitAt(WeekDays[b], 9, Phrases[10], "octo/app"), counts[b])
    IN  at(1) \o at(2) \o at(3) \o at(4)

\* a project as the subject worked on it: `commits` commits, the first
\* `fixes` of them fixes and the next `features` new features, one on each
\* of `days` consecutive days, all further ones on the last of these days,
\* which comes after `pause` days without work
Profiles ==
    { [commits |-> 3, fixes |-> 3, features |-> 0, days |-> 1, pause |-> 0],
      [commits |-> 8, fixes |-> 4, features |-> 2, days |-> 5, pause |-> 0],
      [commits |-> 16, fixes |-> 8, features |-> 2, days |-> 6, pause |-> 0],
      [commits |-> 10, fixes |-> 0, features |-> 1, days |-> 2, pause |-> 3],
      [commits |-> 11, fixes |-> 1, features |-> 0, days |-> 2, pause |-> 9],
      [commits |-> 11, fixes |-> 4, features |-> 2, days |-> 6, pause |-> 0] }

\* the commits of a project with this profile, begun on 2025-03-01
ProjectCommits(repo, profile) ==
    [k \in 1..profile.commits |->
        [message |-> IF k <= profile.fixes THEN Phrases[2]
                     ELSE IF k <= profile.fixes + profile.features THEN Phrases[5]
                     ELSE Phrases[10],
         date |-> 24 * (ParseDate(<<2025, 3, 1>>)
                        + (IF k < profile.days THEN k - 1
                           ELSE profile.days - 1 + profile.pause)) + 9,
         repo |-> repo]]

\* the commits of two or three projects, one project after the other
RECURSIVE ProjectsCommits(_, _)
ProjectsCommits(profiles, k) ==
    IF k > Len(profiles) THEN <<>>
    ELSE ProjectCommits(<<"octo/app", "octo/lib", "octo/docs">>[k], profiles[k])
         \o ProjectsCommits(profiles, k + 1)

InitAnalysis ==
    /\ impl = "worker"
    /\ scenario = "Sparse2024"
    /\ year = 2025
    /\ run = 1
    /\ firstRun = <<>>
    /\ analysis = NoAnalysis
    /\ categories = <<>>
    /\ \/ \E D \in SUBSET CommitDays, latestFirst \in BOOLEAN, again \in BOOLEAN :
              input = CommitsOn(D, latestFirst, again, Phrases[1])
       \/ \E message \in Messages :
              input = <<CommitAt(<<2025, 1, 10>>, 9, Phrases[1], "octo/app"),
                        CommitAt(<<2025, 1, 3>>, 23, message, "octo/lib"),
                        CommitAt(<<2025, 1, 2>>, 0, Phrases[10], "octo/app"),
                        CommitAt(<<2025, 1, 1>>, 12, message, "octo/app")>>
       \/ \E counts \in [1..4 -> 0..MaxPerBucket], hours \in BucketHours :
              input = CommitsAtHours(counts, hours)
       \/ \E counts \in [1..4 -> 0..MaxPerBucket] :
              input = CommitsOnWeekDays(counts)
       \/ \E profiles \in [1..2 -> Profiles] \cup [1..3 -> Profiles] :
              input = ProjectsCommits(profiles, 1)
    /\ months = <<>>
    /\ monthIdx = 0
    /\ level = "none"
    /\ days = <<>>
    /\ i = 0
    /\ d = 0
    /\ search = NewSearch(NoRange, NoRange)
    /\ result = EmptyResult
    /\ allCommits = <<>>
    /\ seenShas = {}
    /\ snapshot = <<>>
    /\ faulted = FALSE
    /\ issued = <<>>
    /\ observed = <<>>
    /\ monthTruncated = FALSE
    /\ keptIncomplete = FALSE
    /\ bisected = FALSE
    /\ sources = <<>>
    /\ discarded = <<>>
    /\ request = SubjectRequest("/api/wrapped")
    /\ response = NoResponse
    /\ cache = NoCache
    /\ outbound = <<>>
    /\ pc = "analyze"

NextAnalysis == AnalyzeCommits

SpecAnalysis == InitAnalysis /\ [][NextAnalysis]_vars

----------------------------------------------------------------------------
(* analyzeCommits one commit at a time: `analysis` holds the accumulators   *)
(* of the loop, and the loop has handled Len(categories) commits.           *)

\* the accumulators as declared before the loop
LoopStart ==
    [repoMap |-> <<>>,
     repoOrder |-> <<>>,
     hourlyActivity |-> [h \in 0..23 |-> 0],
     dailyActivity |-> [wd \in 0..6 |-> 0],
     monthlyActivity |-> [mn \in 0..11 |-> 0],
     commitsByDate |-> <<>>]

\* repoMap.set(repoName, {...}) for a repository not seen before
NewRepo(repoName, date) ==
    [fullName |-> repoName,
     commitCount |-> 0,
     fixes |-> 0,
     features |-> 0,
     refactors |-> 0,
     docs |-> 0,
     tests |-> 0,
     other |-> 0,
     firstCommit |-> date,
     lastCommit |-> date,
     activeDays |-> {}]

\* a slip: the entry of a repository is set anew for each of its commits
LoopBodyResetting(acc, commit) ==
    LET repoName == commit.repo
        date == commit.date
        dateStr == DateStr(commit)
        counter == CounterOf(Categorize(commit.message))
        seen == repoName \in DOMAIN acc.repoMap
        repo == NewRepo(repoName, date)
    IN  [acc EXCEPT
            !.commitsByDate =
                IF dateStr \in DOMAIN @ THEN [@ EXCEPT ![dateStr] = @ + 1]
                ELSE (dateStr :> 1) @@ @,
            !.hourlyActivity[GetUTCHours(commit)] = @ + 1,
            !.dailyActivity[GetUTCDay(commit)] = @ + 1,
            !.monthlyActivity[GetUTCMonth(commit)] = @ + 1,
            !.repoOrder = IF seen THEN @ ELSE Append(@, repoName),
            !.repoMap =
                (repoName :>
                    [repo EXCEPT
                        !.commitCount = @ + 1,
                        ![counter] = @ + 1,
                        !.activeDays = @ \cup {dateStr}])
                @@ @]

\* a slip: firstCommit stays the date of the commit that made the entry
FirstCommitKept(repo, date) == repo.firstCommit

\* if (date < repo.firstCommit) repo.firstCommit = date
FirstCommitAfter(repo, date) == IF date < repo.firstCommit THEN date ELSE repo.firstCommit

\* if (date > repo.lastCommit) repo.lastCommit = date
LastCommitAfter(repo, date) == IF date > repo.lastCommit THEN date ELSE repo.lastCommit

\* the body of `for (const commit of commits)`
LoopBody(acc, commit) ==
    LET repoName == commit.repo
        date == commit.date
        dateStr == DateStr(commit)
        counter == CounterOf(Categorize(commit.message))
        seen == repoName \in DOMAIN acc.repoMap
        repo == IF seen THEN acc.repoMap[repoName] ELSE NewRepo(repoName, date)
    IN  [acc EXCEPT
            !.commitsByDate =
                IF dateStr \in DOMAIN @ THEN [@ EXCEPT ![dateStr] = @ + 1]
                ELSE (dateStr :> 1) @@ @,
            !.hourlyActivity[GetUTCHours(commit)] = @ + 1,
            !.dailyActivity[GetUTCDay(commit)] = @ + 1,
            !.monthlyActivity[GetUTCMonth(commit)] = @ + 1,
            !.repoOrder = IF seen THEN @ ELSE Append(@, repoName),
            !.repoMap =
                (repoName :>
                    [repo EXCEPT
                        !.commitCount = @ + 1,
                        ![counter] = @ + 1,
                        !.activeDays = @ \cup {dateStr},
                        !.firstCommit = FirstCommitAfter(repo, date),
                        !.lastCommit = LastCommitAfter(repo, date)])
                @@ @]

\* the accumulators after the loop over these commits
RECURSIVE Loop(_, _)
Loop(acc, commits) ==
    IF commits = <<>> THEN acc ELSE Loop(LoopBody(acc, Head(commits)), Tail(commits))

\* "Calculate per-repo metrics" for one entry of repoMap
RepoMetrics(repo) ==
    LET daySpan == DaySpan(repo.firstCommit, repo.lastCommit)
        activeDaysCount == Cardinality(repo.activeDays)
    IN  [fullName |-> repo.fullName,
         commitCount |-> repo.commitCount,
         fixes |-> repo.fixes,
         features |-> repo.features,
         refactors |-> repo.refactors,
         docs |-> repo.docs,
         tests |-> repo.tests,
         other |-> repo.other,
         firstCommit |-> repo.firstCommit,
         lastCommit |-> repo.lastCommit,
         activeDaysCount |-> activeDaysCount,
         daysSpan |-> daySpan,
         commitsPerActiveDay |-> Quotient(repo.commitCount, activeDaysCount),
         problemRatio |-> Quotient(repo.fixes, repo.commitCount),
         velocity |-> Quotient(repo.commitCount, daySpan),
         blitzScore |-> BlitzScore(repo.commitCount, activeDaysCount, daySpan)]

\* analyzeCommits from the end of its loop over the commits on
AfterLoop(acc) ==
    [repoMap |-> [repo \in DOMAIN acc.repoMap |-> RepoMetrics(acc.repoMap[repo])],
     repoOrder |-> acc.repoOrder,
     timeAnalysis |->
         TimeSummary(acc.hourlyActivity, acc.dailyActivity, acc.monthlyActivity),
     streaks |-> Streaks(acc.commitsByDate)]

\* one iteration of the loop over the commits
AnalyzeCommit ==
    /\ pc = "loop"
    /\ Len(categories) < Len(input)
    /\ LET commit == input[Len(categories) + 1]
       IN  /\ analysis' = LoopBody(analysis, commit)
           /\ categories' = Append(categories, Categorize(commit.message))
    /\ UNCHANGED <<runVars, httpVars, input, months, monthIdx, level, days, i, d, search, result,
                   allCommits, seenShas, snapshot, pc, histVars>>

\* the rest of analyzeCommits, and of generateWrapped
AnalyzeMetrics ==
    /\ pc = "loop"
    /\ Len(categories) = Len(input)
    /\ analysis' = AfterLoop(analysis)
    /\ snapshot' = Snapshot(year, input, analysis')
    /\ pc' = "analyzed"
    /\ UNCHANGED <<runVars, httpVars, input, categories, months, monthIdx, level, days, i, d,
                   search, result, allCommits, seenShas, histVars>>

InitLoop ==
    /\ impl = "worker"
    /\ scenario = "Sparse2024"
    /\ year = 2025
    /\ run = 1
    /\ firstRun = <<>>
    /\ analysis = LoopStart
    /\ categories = <<>>
    /\ \/ \E D \in SUBSET CommitDays, latestFirst \in BOOLEAN, again \in BOOLEAN :
              input = CommitsOn(D, latestFirst, again, Phrases[1])
       \/ \E message \in Messages :
              input = <<CommitAt(<<2025, 1, 10>>, 9, Phrases[1], "octo/app"),
                        CommitAt(<<2025, 1, 3>>, 23, message, "octo/lib"),
                        CommitAt(<<2025, 1, 2>>, 0, Phrases[10], "octo/app"),
                        CommitAt(<<2025, 1, 1>>, 12, message, "octo/app")>>
       \/ \E profiles \in [1..2 -> Profiles] :
              input = ProjectsCommits(profiles, 1)
    /\ months = <<>>
    /\ monthIdx = 0
    /\ level = "none"
    /\ days = <<>>
    /\ i = 0
    /\ d = 0
    /\ search = NewSearch(NoRange, NoRange)
    /\ result = EmptyResult
    /\ allCommits = <<>>
    /\ seenShas = {}
    /\ snapshot = <<>>
    /\ faulted = FALSE
    /\ issued = <<>>
    /\ observed = <<>>
    /\ monthTruncated = FALSE
    /\ keptIncomplete = FALSE
    /\ bisected = FALSE
    /\ sources = <<>>
    /\ discarded = <<>>
    /\ request = SubjectRequest("/api/wrapped")
    /\ response = NoResponse
    /\ cache = NoCache
    /\ outbound = <<>>
    /\ pc = "loop"

NextLoop == AnalyzeCommit \/ AnalyzeMetrics

SpecLoop == InitLoop /\ [][NextLoop]_vars

----------------------------------------------------------------------------
(* The end of generateWrapped, and the crawl as a whole.                    *)

\* analyzeCommitsForWorkflow: the category of a commit with this message
CategorizeForWorkflow(message) ==
    LET msg == ToLowerCase(message)
    IN  IF SomeIncluded(bugKeywords, msg) THEN "fix"
        ELSE IF SomeIncluded(featureKeywords, msg) THEN "feature"
        ELSE IF SomeIncluded(refactorKeywords, msg) THEN "refactor"
        ELSE "other"

\* analyzeCommitsForWorkflow: the local `category` of each iteration
CategoriesForWorkflowOf(commits) ==
    [k \in 1..Len(commits) |-> CategorizeForWorkflow(commits[k].message)]

\* analyzeCommitsForWorkflow: the entry pushed to repoStats for a repository
RepoStat(commits, cats, repo) ==
    LET own == { k \in 1..Len(commits) : commits[k].repo = repo }
        count(category) == Cardinality({ k \in own : cats[k] = category })
        firstCommit == CHOOSE t \in { commits[k].date : k \in own } :
                           \A k \in own : t <= commits[k].date
        lastCommit == CHOOSE t \in { commits[k].date : k \in own } :
                          \A k \in own : t >= commits[k].date
        daySpan == DaySpan(firstCommit, lastCommit)
        activeDaysCount == Cardinality({ DateStr(commits[k]) : k \in own })
    IN  [fullName |-> repo,
         commits |-> Cardinality(own),
         fixes |-> count("fix"),
         features |-> count("feature"),
         refactors |-> count("refactor"),
         problemRatio |-> Quotient(count("fix"), Cardinality(own)),
         velocity |-> Quotient(Cardinality(own), daySpan),
         blitzScore |-> BlitzScore(Cardinality(own), activeDaysCount, daySpan),
         activeDays |-> activeDaysCount]

\* analyzeCommitsForWorkflow(commits)
AnalyzeCommitsForWorkflowOf(commits) ==
    LET idx == 1..Len(commits)
        cats == CategoriesForWorkflowOf(commits)
        order == RepoOrder(commits)
        dates == { DateStr(commits[k]) : k \in idx }
        total(category) == Cardinality({ k \in idx : cats[k] = category })
        time == TimeAnalysis(commits)
    IN  [repoStats |->
             Sort([k \in 1..Len(order) |-> RepoStat(commits, cats, order[k])], "ByCommits"),
         commitTypes |->
             [fixes |-> total("fix"),
              features |-> total("feature"),
              refactors |-> total("refactor"),
              other |-> Len(commits) - total("fix") - total("feature") - total("refactor")],
         timeAnalysis |->
             [peakHour |-> time.peakHour,
              peakDay |-> time.peakDay,
              peakMonth |-> time.peakMonth,
              codingStyle |-> time.codingStyle,
              isWeekendWarrior |-> time.isWeekendWarrior,
              weekendCommits |-> time.weekendCommits,
              weekdayCommits |-> time.weekdayCommits,
              hourlyActivity |-> time.hourlyActivity,
              dailyActivity |-> time.dailyActivity,
              monthlyActivity |-> time.monthlyActivity],
         streaks |->
            Streaks([ds \in dates |->
                        Cardinality({ k \in idx : DateStr(commits[k]) = ds })])]

\* the result GitHubWrappedWorkflow.run returns
WorkflowResult(yr, commits, an) ==
    LET repoContributions == an.repoStats
    IN  [year |-> yr,
         stats |->
             [totalCommits |-> Len(commits),
              repositoriesContributed |-> Len(repoContributions),
              allRepositories |-> repoContributions,
              commitTypes |-> an.commitTypes],
         repoHighlights |-> RepoHighlights(repoContributions),
         timeAnalysis |-> an.timeAnalysis,
         streaks |-> an.streaks,
         allCommits |-> commits]

\* the repositories the subject commits to
Repositories == <<"octo/app", "octo/app", "octo/lib", "octo/lib", "octo/docs">>

\* the messages the subject writes
UpstreamMessages == <<Phrases[2], Phrases[5], Phrases[10], Phrases[6]>>

\* the commit object searchCommitsInRange makes of the search item with
\* this sha: its committer date is on the first day the upstream lists it,
\* and its repository and message are the item's
UpstreamCommit(up, sha) ==
    LET lists(n) == \E j \in 1..Len(up.entries[n].shas) : up.entries[n].shas[j] = sha
        first == CHOOSE n \in 1..Len(up.entries) :
                     lists(n) /\ \A m \in 1..(n - 1) : ~lists(m)
    IN  CommitAt(up.entries[first].date, (7 * sha) % 24,
                 UpstreamMessages[(sha % Len(UpstreamMessages)) + 1],
                 Repositories[(sha % Len(Repositories)) + 1])

\* the rest of generateWrapped, or of GitHubWrappedWorkflow.run: the crawled
\* commits are analysed and the snapshot is built
GenerateWrapped ==
    /\ pc = "crawled"
    /\ input' = [k \in 1..Len(allCommits) |-> UpstreamCommit(upstream, allCommits[k])]
    /\ IF impl = "worker"
       THEN /\ analysis' = AnalyzeCommitsOf(input')
            /\ categories' = CategoriesOf(input')
            /\ snapshot' = Snapshot(year, allCommits, analysis')
            /\ response' = [status |-> 200, body |-> snapshot']
            /\ cache' = response'
       ELSE /\ analysis' = AnalyzeCommitsForWorkflowOf(input')
            /\ categories' = CategoriesForWorkflowOf(input')
            /\ snapshot' = WorkflowResult(year, allCommits, analysis')
            /\ response' = [instance |-> "complete", output |-> snapshot']
            /\ cache' = cache
    /\ pc' = "done"
    /\ UNCHANGED <<runVars, request, outbound, months, monthIdx, level, days, i, d, search,
                   result, allCommits, seenShas, faulted, issued, observed,
                   monthTruncated, keptIncomplete, bisected, sources, discarded>>

Next ==
    \/ GetUserInfo
    \/ GetUserInfoFails
    \/ BuildMonths
    \/ BeginMonth
    \/ FetchPage
    \/ FetchBeyondCap
    \/ Fetch403
    \/ Fetch422
    \/ FetchOtherStatus
    \/ FetchThrows
    \/ MonthAccept
    \/ MonthBisect
    \/ WeekAccept
    \/ WeekBisect
    \/ DayAccept
    \/ Merge
    \/ GenerateWrapped

Spec == Init /\ [][Next]_vars

----------------------------------------------------------------------------
(* The same request served twice: generateWrapped runs to its end and is    *)
(* called again against the same upstream.  The upstream is one whose       *)
(* answer to a request is a function of the query and the page.             *)

Deterministic(up) == ~up.faulty

\* the second call of generateWrapped begins: every local is new; the output
\* list and the seen-set are whatever searchAllCommitsByUser makes of them
Rerun ==
    /\ pc = "done" /\ run = 1
    /\ run' = 2
    /\ firstRun' = snapshot.allCommits
    /\ pc' = "start"
    /\ months' = <<>>
    /\ monthIdx' = 0
    /\ level' = "none"
    /\ days' = <<>>
    /\ i' = 0
    /\ d' = 0
    /\ search' = NewSearch(NoRange, NoRange)
    /\ result' = EmptyResult
    /\ snapshot' = <<>>
    /\ faulted' = FALSE
    /\ issued' = <<>>
    /\ observed' = <<>>
    /\ monthTruncated' = FALSE
    /\ keptIncomplete' = FALSE
    /\ bisected' = FALSE
    /\ sources' = <<>>
    /\ discarded' = <<>>
    /\ input' = <<>>
    /\ analysis' = NoAnalysis
    /\ categories' = <<>>
    /\ response' = NoResponse
    /\ cache' = NoCache
    /\ outbound' = <<>>
    /\ UNCHANGED <<impl, scenario, year, allCommits, seenShas, request>>

InitRerun ==
    /\ Init
    /\ Deterministic(upstream)

NextRerun ==
    \/ Next
    \/ Rerun

SpecRerun == InitRerun /\ [][NextRerun]_vars

----------------------------------------------------------------------------
(* The worker's HTTP surface: /api/wrapped up to the call of generateWrapped *)
(* (the crawl above), and the OAuth callback.  A Cookie header is the       *)
(* sequence of its cookies, each the sequence of the pieces between its     *)
(* "=" signs; the cookies are the ones the worker itself sets, whose values *)
(* (hexadecimal states, access tokens) hold no "=".                         *)

SESSION_COOKIE_NAME == "gh_wrapped_session"

SESSION_EXPIRY == 7 * 24 * 60 * 60

\* the property `name` of the object `cookies`
Lookup(cookies, name) == IF name \in DOMAIN cookies THEN cookies[name] ELSE Undefined

\* const [name, value] = cookie.trim().split('=')
SplitValue(cookie) == IF Len(cookie) >= 2 THEN cookie[2] ELSE Undefined

RECURSIVE ParseCookiesFrom(_, _, _)
ParseCookiesFrom(cookieHeader, k, cookies) ==
    IF k > Len(cookieHeader) THEN cookies
    ELSE LET name == cookieHeader[k][1]
             value == SplitValue(cookieHeader[k])
         IN  ParseCookiesFrom(cookieHeader, k + 1,
                              IF Truthy(name) /\ Truthy(value)
                              THEN (name :> value) @@ cookies
                              ELSE cookies)

\* parseCookies: pairs without a name or without a value are dropped, a later
\* pair of the same name replaces an earlier one
ParseCookies(req) == ParseCookiesFrom(req.cookie, 1, <<>>)

GetSessionToken(req) == Lookup(ParseCookies(req), SESSION_COOKIE_NAME)

\* a slip: the stored and the provided state are both there, and that is all
ValidateStateByPresence(req, providedState) ==
    LET storedState == Lookup(ParseCookies(req), "oauth_state")
    IN  IF ~Truthy(storedState) \/ ~Truthy(providedState) THEN FALSE ELSE TRUE

ValidateState(req, providedState) ==
    LET storedState == Lookup(ParseCookies(req), "oauth_state")
    IN  IF ~Truthy(storedState) \/ ~Truthy(providedState)
        THEN FALSE
        ELSE storedState = providedState

\* the Set-Cookie values
ClearStateCookie == [name |-> "oauth_state", value |-> "", maxAge |-> 0]

CreateSessionCookie(token) ==
    [name |-> SESSION_COOKIE_NAME, value |-> token, maxAge |-> SESSION_EXPIRY]

\* the POST to https://github.com/login/oauth/access_token and the lookup of
\* the authenticated user, with how they ended
TokenExchange(code, outcome) == <<"/login/oauth/access_token", code, outcome>>

AuthenticatedUser(token, outcome) == <<"/user", token, outcome>>

\* caches.default is asked for the request's cache URL
CacheMatch(outcome) == <<"cache.match", outcome>>

AccessToken == "gho_fresh"

\* an error answer with its Set-Cookie headers
ErrorResponse(status, error, setCookie) ==
    [status |-> status, error |-> error, setCookie |-> setCookie]

\* getOAuthRedirectUri
HasRedirectUri(env) == Truthy(env.OAUTH_REDIRECT_URI) \/ Truthy(env.APP_URL)

HandleOAuthCallback ==
    /\ pc = "request"
    /\ request.path = "/api/oauth/callback"
    /\ LET code == request.code
           state == request.state
           env == request.env
       IN  \/ /\ ~ValidateState(request, state)
              /\ response' = ErrorResponse(400, "Invalid state parameter. Possible CSRF attack.",
                                           <<ClearStateCookie>>)
              /\ outbound' = outbound
           \/ /\ ValidateState(request, state)
              /\ ~Truthy(code)
              /\ response' = ErrorResponse(400, "Missing authorization code", <<>>)
              /\ outbound' = outbound
           \/ /\ ValidateState(request, state)
              /\ Truthy(code)
              /\ ~HasRedirectUri(env)
              /\ response' = ErrorResponse(500, "Either OAUTH_REDIRECT_URI or APP_URL must be configured",
                                           <<>>)
              /\ outbound' = outbound
           \/ /\ ValidateState(request, state)
              /\ Truthy(code)
              /\ HasRedirectUri(env)
              /\ ~Truthy(env.GITHUB_CLIENT_ID) \/ ~Truthy(env.GITHUB_CLIENT_SECRET)
              /\ response' = ErrorResponse(500, "OAuth not configured", <<ClearStateCookie>>)
              /\ outbound' = outbound
           \/ /\ ValidateState(request, state)
              /\ Truthy(code)
              /\ HasRedirectUri(env)
              /\ Truthy(env.GITHUB_CLIENT_ID) /\ Truthy(env.GITHUB_CLIENT_SECRET)
              /\ \/ /\ outbound' = Append(outbound, TokenExchange(code, "throws"))
                    /\ response' = ErrorResponse(500, "OAuth authentication failed",
                                                 <<ClearStateCookie>>)
                 \/ /\ outbound' = Append(outbound, TokenExchange(code, "error"))
                    /\ response' = ErrorResponse(400, "bad_verification_code",
                                                 <<ClearStateCookie>>)
                 \/ /\ outbound' = outbound \o <<TokenExchange(code, "ok"),
                                                 AuthenticatedUser(AccessToken, "failed")>>
                    /\ response' = ErrorResponse(500, "OAuth authentication failed",
                                                 <<ClearStateCookie>>)
                 \/ /\ outbound' = outbound \o <<TokenExchange(code, "ok"),
                                                 AuthenticatedUser(AccessToken, "ok")>>
                    /\ response' = [status |-> 302,
                                    location |-> [oauth |-> "success", username |-> Subject],
                                    setCookie |-> <<CreateSessionCookie(AccessToken),
                                                    ClearStateCookie>>]
    /\ pc' = "answered"
    /\ UNCHANGED <<runVars, request, cache, anVars, months, monthIdx, level, days, i, d,
                   search, result, allCommits, seenShas, snapshot, histVars>>

\* username.toLowerCase() on the usernames of the requests below
UsernameToLowerCase(username) == IF username = "Demo" THEN "demo" ELSE username

UsernameRequired ==
    "Username is required"
        \o ". Please sign in to view your own stats or provide a username to view someone else's."

DemoData == [user |-> [login |-> "demouser"]]

\* a slip: only a missing parameter counts as no username
NoUsernameIfNull(username) == username = Absent

\* !username
NoUsername(username) == ~Truthy(username)

\* /api/wrapped, up to `await generateWrapped(username, year, token, env)`
HandleWrapped ==
    /\ pc = "request"
    /\ request.path = "/api/wrapped"
    /\ \E lookup \in {"ok", "failed"} :
           LET sessionToken == GetSessionToken(request)
               asked == NoUsername(request.username) /\ Truthy(sessionToken)
               calls == IF asked
                        THEN Append(outbound, AuthenticatedUser(sessionToken, lookup))
                        ELSE outbound
               username == IF asked /\ lookup = "ok" THEN Subject ELSE request.username
           IN  /\ ~asked => lookup = "ok"
               /\ \/ /\ NoUsername(username)
                     /\ response' = [status |-> 400, error |-> UsernameRequired]
                     /\ outbound' = calls
                     /\ pc' = "answered"
                  \/ /\ ~NoUsername(username)
                     /\ UsernameToLowerCase(username) \in {"demo", "demouser"}
                     /\ response' = [status |-> 200, body |-> DemoData]
                     /\ outbound' = calls
                     /\ pc' = "answered"
                  \/ /\ ~NoUsername(username)
                     /\ UsernameToLowerCase(username) \notin {"demo", "demouser"}
                     /\ cache # NoCache
                     /\ response' = cache
                     /\ outbound' = Append(calls, CacheMatch("hit"))
                     /\ pc' = "answered"
                  \/ /\ ~NoUsername(username)
                     /\ UsernameToLowerCase(username) \notin {"demo", "demouser"}
                     /\ cache = NoCache
                     /\ response' = response
                     /\ outbound' = Append(calls, CacheMatch("miss"))
                     /\ pc' = "start"
    /\ UNCHANGED <<runVars, request, cache, anVars, months, monthIdx, level, days, i, d,
                   search, result, allCommits, seenShas, snapshot, histVars>>

\* /api/workflow/start, up to the start of the instance's run
HandleWorkflowStart ==
    /\ pc = "request"
    /\ request.path = "/api/workflow/start"
    /\ \E lookup \in {"ok", "failed"}, created \in BOOLEAN :
           LET sessionToken == GetSessionToken(request)
               asked == NoUsername(request.username) /\ Truthy(sessionToken)
               calls == IF asked
                        THEN Append(outbound, AuthenticatedUser(sessionToken, lookup))
                        ELSE outbound
               username == IF asked /\ lookup = "ok" THEN Subject ELSE request.username
           IN  /\ ~asked => lookup = "ok"
               /\ outbound' = calls
               /\ \/ /\ NoUsername(username)
                     /\ created
                     /\ response' = [status |-> 400, error |-> "Username is required"]
                     /\ pc' = "answered"
                  \/ /\ ~NoUsername(username)
                     /\ ~Truthy(request.env.WRAPPED_WORKFLOW)
                     /\ created
                     /\ response' = [status |-> 500,
                                     error |-> "Workflow not configured. Please deploy with wrangler.json"]
                     /\ pc' = "answered"
                  \/ /\ ~NoUsername(username)
                     /\ Truthy(request.env.WRAPPED_WORKFLOW)
                     /\ ~created
                     /\ response' = [status |-> 500, error |-> "Failed to start workflow"]
                     /\ pc' = "answered"
                  \/ /\ ~NoUsername(username)
                     /\ Truthy(request.env.WRAPPED_WORKFLOW)
                     /\ created
                     /\ response' = [status |-> 200, success |-> TRUE]
                     /\ pc' = "start"
    /\ UNCHANGED <<runVars, request, cache, anVars, months, monthIdx, level, days, i, d,
                   search, result, allCommits, seenShas, snapshot, histVars>>

\* the cookies a browser may hold: the session of an earlier sign-in, the
\* state of a pending or of another sign-in, a cookie without value
SessionCookie == <<SESSION_COOKIE_NAME, "gho_session">>

StateCookie(state) == <<"oauth_state", state>>

States == {"5f3a", "c09e"}

WrappedRequests ==
    [path : {"/api/wrapped"}, username : {Absent, "", Subject, "Demo"},
     token : {Absent, "ghp_query"}, code : {Absent}, state : {Absent},
     cookie : {<<>>, <<SessionCookie>>, <<<<SESSION_COOKIE_NAME, "">>>>,
               <<StateCookie("5f3a")>>},
     env : {Env}]

CallbackRequests ==
    [path : {"/api/oauth/callback"}, username : {Absent}, token : {Absent},
     code : {Absent, "", "code-1"}, state : {Absent, ""} \cup States,
     cookie : {<<>>, <<<<"oauth_state">>>>, <<StateCookie("")>>, <<SessionCookie>>,
               <<StateCookie("5f3a")>>, <<SessionCookie, StateCookie("c09e")>>},
     env : {Env, [Env EXCEPT !.GITHUB_CLIENT_SECRET = Undefined],
            [Env EXCEPT !.APP_URL = Undefined]}]

WorkflowRequests ==
    [path : {"/api/workflow/start"}, username : {Absent, Subject}, token : {Absent},
     code : {Absent}, state : {Absent}, cookie : {<<>>, <<SessionCookie>>},
     env : {Env, [Env EXCEPT !.WRAPPED_WORKFLOW = Undefined]}]

\* an answer stored by an earlier request of the same cache URL
EarlierAnswer == [status |-> 200, body |-> [year |-> 2025]]

HttpScenarios == {"Flaky2024", "BusyWeek2024"}

InitHttp ==
    /\ scenario \in HttpScenarios
    /\ year = Scenario(scenario).year
    /\ run = 1
    /\ firstRun = <<>>
    /\ input = <<>>
    /\ analysis = NoAnalysis
    /\ categories = <<>>
    /\ request \in WrappedRequests \cup CallbackRequests \cup WorkflowRequests
    /\ impl = IF request.path = "/api/workflow/start" THEN "workflow" ELSE "worker"
    /\ cache \in {NoCache, EarlierAnswer}
    /\ response = NoResponse
    /\ outbound = <<>>
    /\ pc = "request"
    /\ InitLocals

NextHttp ==
    \/ HandleOAuthCallback
    \/ HandleWrapped
    \/ HandleWorkflowStart
    \/ Next

SpecHttp == InitHttp /\ [][NextHttp]_vars

----------------------------------------------------------------------------
(* A request that is never answered.  searchCommitsInRange awaits its fetch *)
(* without a deadline, so the call stays where it is.  In the workflow the  *)
(* month is searched inside a step with a timeout and retries: the step is  *)
(* abandoned and run again, and fails the run when its retries are used up. *)

\* retries: { limit: 5, ... } of the step fetch-commits-month-N
StepRetries == 5

\* the request of the loop's iteration is never answered
Hangs ==
    /\ <<search.start, search.end, search.page>> \in DOMAIN upstream.failures
    /\ upstream.failures[<<search.start, search.end, search.page>>] = -1

\* how often the step of the month in hand has been started
Attempts ==
    Len(SelectSeq(issued,
                  LAMBDA q : q = <<"month", months[monthIdx].start, months[monthIdx].end>>))

\* the step of the month reaches its timeout: its callback is abandoned and
\* started again, or the step throws after its last retry and the instance
\* ends as errored
StepTimeout ==
    /\ impl = "workflow"
    /\ pc = "fetch"
    /\ Hangs
    /\ faulted' = TRUE
    /\ IF Attempts <= StepRetries
       THEN pc' = "month" /\ response' = response
       ELSE pc' = "failed" /\ response' = ErrorAnswer(impl)
    /\ UNCHANGED <<runVars, request, cache, outbound, anVars, months, monthIdx, level, days,
                   i, d, search, result, allCommits, seenShas, snapshot, issued, observed,
                   monthTruncated, keptIncomplete, bisected, sources, discarded>>

HangScenarios == {"Hanging2024", "FullMonth2023"}

InitHang ==
    /\ impl \in Implementations
    /\ scenario \in HangScenarios
    /\ year = Scenario(scenario).year
    /\ run = 1
    /\ firstRun = <<>>
    /\ input = <<>>
    /\ analysis = NoAnalysis
    /\ categories = <<>>
    /\ request = SubjectRequest(IF impl = "worker" THEN "/api/wrapped"
                                ELSE "/api/workflow/start")
    /\ InitRun

NextHang == StepTimeout \/ Next

\* a step of the crawl, from the user lookup to the merge of the last month
CrawlStep ==
    \/ StepTimeout
    \/ GetUserInfo
    \/ GetUserInfoFails
    \/ BuildMonths
    \/ BeginMonth
    \/ FetchPage
    \/ FetchBeyondCap
    \/ Fetch403
    \/ Fetch422
    \/ FetchOtherStatus
    \/ FetchThrows
    \/ MonthAccept
    \/ MonthBisect
    \/ WeekAccept
    \/ WeekBisect
    \/ DayAccept
    \/ Merge

\* a step of the crawl that can be taken is taken in the end: a promise that
\* settles resumes the function awaiting it
SpecHang == InitHang /\ [][NextHang]_vars /\ WF_vars(CrawlStep)

----------------------------------------------------------------------------
(* The month ranges of any requested year.  The year is the request's       *)
(* `year` parameter; only the steps up to the construction of the months    *)
(* are taken.                                                               *)

InitCalendar ==
    /\ impl \in Implementations
    /\ scenario = "Sparse2024"
    /\ year \in FirstYear..LastYear
    /\ run = 1
    /\ firstRun = <<>>
    /\ input = <<>>
    /\ analysis = NoAnalysis
    /\ categories = <<>>
    /\ request = SubjectRequest(IF impl = "worker" THEN "/api/wrapped"
                                ELSE "/api/workflow/start")
    /\ InitRun

NextCalendar ==
    \/ GetUserInfo
    \/ BuildMonths

SpecCalendar == InitCalendar /\ [][NextCalendar]_vars

----------------------------------------------------------------------------
(* The Gregorian calendar, stated without Date arithmetic *)

IsLeapYear(y) == y % 4 = 0 /\ (y % 100 # 0 \/ y % 400 = 0)

CalendarLastDay(y, m) ==
    IF m = 2 THEN (IF IsLeapYear(y) THEN 29 ELSE 28)
    ELSE IF m \in {4, 6, 9, 11} THEN 30
    ELSE 31

\* every calendar day of year y, as a date string
CalendarDays(y) ==
    { date \in { <<y, m, dd>> : m \in 1..12, dd \in 1..31 } :
          date[3] <= CalendarLastDay(y, date[2]) }

InRange(date, r) == DateLE(r.start, date) /\ DateLE(date, r.end)

----------------------------------------------------------------------------
(* C1: for every target year, leap years included, the 12 initial month     *)
(* ranges are [YYYY-MM-01, last calendar day of month MM], and every        *)
(* calendar day of the year lies in exactly one of them: no day is missing  *)
(* and no day lies in two month ranges.                                     *)

C1_MonthRangesPartitionYear ==
    pc \notin {"start", "init"} =>
        /\ DOMAIN months = 1..12
        /\ \A m \in 1..12 :
               /\ months[m].start = <<year, m, 1>>
               /\ months[m].end = <<year, m, CalendarLastDay(year, m)>>
        /\ \A date \in CalendarDays(year) :
               Cardinality({m \in 1..12 : InRange(date, months[m])}) = 1

\* the months of a leap year have been built, February ending on the 29th
C1_Witness ==
    /\ pc = "month"
    /\ year = 2024
    /\ months[2] = [start |-> <<2024, 2, 1>>, end |-> <<2024, 2, 29>>]
    /\ months[12] = [start |-> <<2024, 12, 1>>, end |-> <<2024, 12, 31>>]

----------------------------------------------------------------------------
(* What the upstream holds, for the statements below *)

ToSet(list) == { list[k] : k \in 1..Len(list) }

\* the shas the upstream lists under a date that satisfies the test
ShasWhere(up, Test(_)) ==
    UNION { ToSet(up.entries[k].shas) :
                k \in { n \in 1..Len(up.entries) : Test(up.entries[n].date) } }

\* the upstream's commits dated in year y
YearShas(up, y) == LET InYear(date) == date[1] = y IN ShasWhere(up, InYear)

\* the upstream's commits dated in month m of year y
MonthShas(up, y, m) ==
    LET InMonth(date) == date[1] = y /\ date[2] = m IN ShasWhere(up, InMonth)

\* no calendar day holds more than 1000 commits
NoDayBeyondCap(up) == \A k \in 1..Len(up.entries) : Len(up.entries[k].shas) <= ResultCap

RECURSIVE SumCounts(_)
SumCounts(srcs) == IF srcs = <<>> THEN 0 ELSE Head(srcs)[2] + SumCounts(Tail(srcs))

----------------------------------------------------------------------------
(* C2: whenever the month-level search returns incomplete = true with       *)
(* totalCount > 1000, the crawler discards every commit of that month-level *)
(* result and issues week-level searches for the month; what the month      *)
(* contributes to the final list then comes only from week-level or         *)
(* day-level results, never from the partial month result.                  *)

TruncatedMonthReturned ==
    /\ pc = "return" /\ level = "month"
    /\ search.incomplete /\ search.totalCount > ResultCap

C2_TruncatedMonthIsBisected ==
    /\ [][TruncatedMonthReturned =>
              /\ result'.commits = <<>>
              /\ pc' = "fetch" /\ level' = "week"
              /\ search'.start = months[monthIdx].start /\ search'.page = 1
              /\ Len(issued') = Len(issued) + 1
              /\ issued'[Len(issued')][1] = "week"]_vars
    /\ [](pc = "merge" /\ bisected =>
              /\ sources # <<>>
              /\ \A k \in 1..Len(sources) : sources[k][1] \in {"week", "day"}
              /\ Len(result.commits) = SumCounts(sources))

\* a month of 1002 commits was bisected: its commits came from four week
\* searches and the seven day searches of its second week
C2_Witness ==
    /\ pc = "merge" /\ bisected
    /\ scenario = "BusyWeek2024" /\ monthIdx = 2
    /\ Len(sources) = 11
    /\ sources[2] = <<"day", 1000>>
    /\ sources[11] = <<"week", 1>>
    /\ Len(result.commits) = 1002

----------------------------------------------------------------------------
(* C3: if the upstream never returns an error, answers every page of a      *)
(* query consistently, and no calendar day holds more than 1000 commits of  *)
(* the subject, then after the crawl the final list contains exactly the    *)
(* upstream commits dated inside the target year, each exactly once.        *)

C3_CompleteWithoutErrors ==
    (/\ pc \in {"crawled", "done"}
     /\ ~faulted
     /\ upstream.kind = "github"
     /\ NoDayBeyondCap(upstream))
        => /\ ToSet(allCommits) = YearShas(upstream, year)
           /\ Len(allCommits) = Cardinality(YearShas(upstream, year))

\* a month of 1001 commits was resolved by its weeks, without any error
C3_Witness ==
    /\ pc = "done"
    /\ ~faulted
    /\ scenario = "BusyMonth2023"
    /\ ToSet(allCommits) = 1..1001
    /\ snapshot.stats.totalCommits = 1001

----------------------------------------------------------------------------
(* C4: if any range search whose commits are kept in the final list ended   *)
(* with incomplete = true, the final snapshot carries an incomplete flag    *)
(* set to true; the flag is false only when no kept range search was        *)
(* truncated.                                                               *)

C4_IncompleteFlagSurfaced ==
    pc = "done" =>
        /\ keptIncomplete =>
               "incomplete" \in DOMAIN snapshot /\ snapshot.incomplete = TRUE
        /\ ~keptIncomplete =>
               "incomplete" \in DOMAIN snapshot /\ snapshot.incomplete = FALSE

----------------------------------------------------------------------------
(* C5: the crawl never silently loses an entire month: whatever the         *)
(* upstream does, if the final list holds no commit of a month for which    *)
(* the upstream has commits, then at least one range search issued inside   *)
(* that month reported incomplete = true.  The output list only grows, so   *)
(* the month is judged when it has just been merged.                        *)

\* the month that has just been merged (0: none yet)
MergedMonth ==
    IF pc = "crawled" THEN 12 ELSE IF pc = "month" THEN monthIdx - 1 ELSE 0

C5_NoMonthSilentlyLost ==
    MergedMonth >= 1 =>
        ((/\ MonthShas(upstream, year, MergedMonth) # {}
          /\ MonthShas(upstream, year, MergedMonth) \cap ToSet(allCommits) = {})
             => monthTruncated)

----------------------------------------------------------------------------
(* C6: whatever the upstream does, as long as each request returns, a crawl *)
(* of one year terminates: granularity only moves month -> week -> day, day *)
(* ranges are never split further, no range is searched twice, and every    *)
(* range search stops after finitely many pages (here: before the page      *)
(* bound of the model).                                                     *)

\* the index of the last search of level lvl issued before the k-th (0: none)
LastBefore(k, lvl) ==
    LET before == { j \in 1..(k - 1) : issued[j][1] = lvl }
    IN  IF before = {} THEN 0 ELSE CHOOSE j \in before : \A n \in before : n <= j

\* the k-th range searched lies in the range of the search it refines
Refines(k, lvl) ==
    LET j == LastBefore(k, lvl)
    IN  /\ j >= 1
        /\ DateLE(issued[j][2], issued[k][2])
        /\ DateLE(issued[k][3], issued[j][3])

C6_CrawlTerminates ==
    /\ \A k \in 1..Len(issued) :
           /\ issued[k][1] \in {"month", "week", "day"}
           /\ issued[k][1] = "week" => Refines(k, "month")
           /\ issued[k][1] = "day" => Refines(k, "week") /\ issued[k][2] = issued[k][3]
    /\ \A j, k \in 1..Len(issued) :
           j < k => <<issued[j][2], issued[j][3]>> # <<issued[k][2], issued[k][3]>>
    /\ pc = "fetch" => search.page <= MaxPages + MaxProbe

----------------------------------------------------------------------------
(* C7: at every point of the crawl the output list holds no two commits     *)
(* with the same sha, the seen-set is the set of the shas in the output     *)
(* list, and the commits are in the order in which their sha was first      *)
(* observed across the processed ranges; feeding shas that were all seen    *)
(* already leaves the list unchanged.                                       *)

\* the first occurrence of each element, in order
FirstOccurrences(obs) ==
    LET firsts == { k \in 1..Len(obs) : \A j \in 1..(k - 1) : obs[j] # obs[k] }
    IN  [n \in 1..Cardinality(firsts) |->
            obs[CHOOSE k \in firsts : Cardinality({ j \in firsts : j <= k }) = n]]

C7_FirstSeenOrderNoDuplicates ==
    /\ [](/\ Cardinality(ToSet(allCommits)) = Len(allCommits)
          /\ seenShas = ToSet(allCommits)
          /\ allCommits = observed \/ allCommits = FirstOccurrences(observed))
    /\ [][(pc = "merge" /\ ToSet(result.commits) \subseteq seenShas) =>
              allCommits' = allCommits]_vars

\* a sha listed twice on one day and once more in the next month was merged
\* once; the next month's merge left the list as it was
C7_Witness ==
    /\ pc = "month" /\ monthIdx = 4
    /\ scenario = "Sparse2024"
    /\ observed = <<4, 2, 3, 5, 5, 5>>
    /\ allCommits = <<4, 2, 3, 5>>
    /\ result.commits = <<5>>

----------------------------------------------------------------------------
(* C8: running the full crawl twice against identical upstream data (the    *)
(* same response for the same query and page) yields the same final commit  *)
(* list, hence identical final commit counts.                               *)

C8_SameListOnRerun ==
    (run = 2 /\ pc = "done") =>
        /\ allCommits = firstRun
        /\ snapshot.allCommits = firstRun
        /\ snapshot.stats.totalCommits = Len(firstRun)

\* the second crawl of an upstream whose January, March, November and
\* December searches fail has ended with the three commits of the first
C8_Witness ==
    /\ run = 2 /\ pc = "done"
    /\ scenario = "Flaky2024"
    /\ firstRun = <<3, 4, 5>>
    /\ allCommits = <<3, 4, 5>>

----------------------------------------------------------------------------
(* C9: every commit gets exactly one category.  The lower-cased message is  *)
(* tested against the keyword lists in the order fix, feature, refactor,    *)
(* docs, test; the first list with a keyword that occurs as a substring     *)
(* wins and a message matching no list is other.  So a message with both a  *)
(* fix keyword and a feature keyword, such as "fix and add new feature",    *)
(* is classified fix.                                                       *)

\* some keyword of the list occurs in the lower-cased message of commit k
Hit(keywords, k) ==
    \E n \in 1..Len(keywords) :
        \E at \in 1..Len(input[k].message) :
            /\ at + Len(keywords[n]) - 1 <= Len(input[k].message)
            /\ \A j \in 1..Len(keywords[n]) :
                   ToLowerCase(input[k].message)[at + j - 1] = keywords[n][j]

\* the category the claim gives commit k
FirstMatch(k) ==
    CASE Hit(bugKeywords, k) -> "fix"
      [] ~Hit(bugKeywords, k) /\ Hit(featureKeywords, k) -> "feature"
      [] ~Hit(bugKeywords, k) /\ ~Hit(featureKeywords, k) /\ Hit(refactorKeywords, k) ->
             "refactor"
      [] ~Hit(bugKeywords, k) /\ ~Hit(featureKeywords, k) /\ ~Hit(refactorKeywords, k)
             /\ Hit(docsKeywords, k) -> "docs"
      [] ~Hit(bugKeywords, k) /\ ~Hit(featureKeywords, k) /\ ~Hit(refactorKeywords, k)
             /\ ~Hit(docsKeywords, k) /\ Hit(testKeywords, k) -> "test"
      [] OTHER -> "other"

C9_FirstMatchingListWins ==
    pc = "analyzed" =>
        /\ Len(categories) = Len(input)
        /\ \A k \in 1..Len(input) :
               /\ categories[k] = FirstMatch(k)
               /\ (Hit(bugKeywords, k) /\ Hit(featureKeywords, k)) => categories[k] = "fix"
               /\ input[k].message = Phrases[1] => categories[k] = "fix"
        /\ \A repo \in DOMAIN analysis.repoMap :
               LET entry == analysis.repoMap[repo]
                   of(category) ==
                       Cardinality({ k \in 1..Len(input) :
                                       input[k].repo = repo /\ categories[k] = category })
               IN  /\ entry.fixes = of("fix")
                   /\ entry.features = of("feature")
                   /\ entry.refactors = of("refactor")
                   /\ entry.docs = of("docs")
                   /\ entry.tests = of("test")
                   /\ entry.other = of("other")
                   /\ entry.commitCount =
                          entry.fixes + entry.features + entry.refactors + entry.docs
                              + entry.tests + entry.other

\* "fix and add new feature" was classified fix, next to "README latest"
\* (docs before test) and "wip" (other)
C9_Witness ==
    /\ pc = "analyzed"
    /\ Len(input) = 4
    /\ input[1].message = Phrases[1]
    /\ input[2].message = Phrases[7] \o <<" ">> \o Phrases[8]
    /\ categories = <<"fix", "docs", "other", "docs">>
    /\ analysis.repoMap["octo/app"].fixes = 1

----------------------------------------------------------------------------
(* C10: for any set of commit dates, longestStreak is the length of the     *)
(* longest run of consecutive calendar days among the distinct dates, and   *)
(* longestStreakStart / longestStreakEnd are the first and the last date of *)
(* the earliest such run (end = start + longestStreak - 1 days).  For the   *)
(* dates 2025-01-01, 2025-01-02, 2025-01-03, 2025-01-10 the result is 3,    *)
(* from 2025-01-01 to 2025-01-03.                                           *)

\* the calendar the commit days lie in
StreakCalendar == CalendarDays(2024) \cup CalendarDays(2025)

\* the position of a date in that calendar
DayOrdinal(date) == Cardinality({ c \in StreakCalendar : DateLE(c, date) })

\* the distinct dates of the commits analysed
CommitDates == { DateStr(input[k]) : k \in 1..Len(input) }

\* n consecutive calendar days from the day at ordinal a on all have commits
RunAt(ordinals, a, n) == \A j \in 0..(n - 1) : (a + j) \in ordinals

\* the length of the longest run of consecutive days
LongestRun(ordinals) ==
    IF ordinals = {} THEN 0
    ELSE CHOOSE n \in 1..Cardinality(ordinals) :
             /\ \E a \in ordinals : RunAt(ordinals, a, n)
             /\ \A a \in ordinals : ~RunAt(ordinals, a, n + 1)

\* where the earliest run of n consecutive days begins
EarliestRun(ordinals, n) ==
    CHOOSE a \in ordinals :
        /\ RunAt(ordinals, a, n)
        /\ \A b \in ordinals : RunAt(ordinals, b, n) => a <= b

DateAtOrdinal(dates, a) == CHOOSE date \in dates : DayOrdinal(date) = a

ExampleDates == { <<2025, 1, 1>>, <<2025, 1, 2>>, <<2025, 1, 3>>, <<2025, 1, 10>> }

C10_LongestStreak ==
    pc = "analyzed" =>
        LET streaks == analysis.streaks
            dates == CommitDates
            ordinals == { DayOrdinal(date) : date \in dates }
            longest == LongestRun(ordinals)
        IN  /\ streaks.longestStreak = longest
            /\ dates = {} =>
                   streaks.longestStreakStart = Null /\ streaks.longestStreakEnd = Null
            /\ dates # {} =>
                   LET first == EarliestRun(ordinals, longest)
                   IN  /\ streaks.longestStreakStart = DateAtOrdinal(dates, first)
                       /\ streaks.longestStreakEnd =
                              DateAtOrdinal(dates, first + longest - 1)
            /\ dates = ExampleDates =>
                   /\ streaks.longestStreak = 3
                   /\ streaks.longestStreakStart = <<2025, 1, 1>>
                   /\ streaks.longestStreakEnd = <<2025, 1, 3>>

\* the example dates, listed latest first with two commits on one day, were
\* analysed
C10_Witness ==
    /\ pc = "analyzed"
    /\ Len(input) = 5
    /\ CommitDates = ExampleDates
    /\ DateStr(input[1]) = <<2025, 1, 10>>
    /\ analysis.streaks.longestStreak = 3
    /\ analysis.streaks.longestStreakStart = <<2025, 1, 1>>
    /\ analysis.streaks.longestStreakEnd = <<2025, 1, 3>>

----------------------------------------------------------------------------
(* C11: codingStyle is night-owl, early-bird or evening-coder only when the *)
(* night (hours 22-23 and 0-5), morning (6-11) or evening (18-21) bucket    *)
(* respectively is strictly greater than each of the other three buckets,   *)
(* and it is balanced whenever no bucket strictly dominates the other       *)
(* three.                                                                   *)

\* how many of the commits analysed were made at an hour of H
CommitsInHours(commits, H) ==
    Cardinality({ k \in 1..Len(commits) : (commits[k].date % 24) \in H })

\* x is strictly greater than each of the three others
Dominates(x, o1, o2, o3) == x > o1 /\ x > o2 /\ x > o3

C11_CodingStyleByStrictMaximum ==
    pc = "analyzed" =>
        LET night == CommitsInHours(input, {22, 23} \cup 0..5)
            morning == CommitsInHours(input, 6..11)
            afternoon == CommitsInHours(input, 12..17)
            evening == CommitsInHours(input, 18..21)
            style == analysis.timeAnalysis.codingStyle
        IN  /\ style \in {"night-owl", "early-bird", "evening-coder", "balanced"}
            /\ style = "night-owl" => Dominates(night, morning, afternoon, evening)
            /\ style = "early-bird" => Dominates(morning, night, afternoon, evening)
            /\ style = "evening-coder" => Dominates(evening, night, morning, afternoon)
            /\ ( /\ ~Dominates(night, morning, afternoon, evening)
                 /\ ~Dominates(morning, night, afternoon, evening)
                 /\ ~Dominates(afternoon, night, morning, evening)
                 /\ ~Dominates(evening, night, morning, afternoon) )
               => style = "balanced"

----------------------------------------------------------------------------
(* C12: isWeekendWarrior is true exactly when the Saturday + Sunday commit  *)
(* count is greater than 50% of the Monday - Friday commit count            *)
(* (2 * weekend > weekday); it never depends on the total, and it is false  *)
(* when there are no commits.                                               *)

\* 2023-12-31 was a Sunday
KnownSunday == <<2023, 12, 31>>

\* how many of the commits were made on a day whose distance in days from a
\* Sunday is, modulo 7, in W
CommitsOnDays(commits, W) ==
    Cardinality({ k \in 1..Len(commits) :
        ((ParseDate(DateStr(commits[k])) - ParseDate(KnownSunday)) % 7) \in W })

C12_WeekendWarriorThreshold ==
    pc = "analyzed" =>
        LET weekend == CommitsOnDays(input, {0, 6})
            weekday == CommitsOnDays(input, 1..5)
        IN  /\ analysis.timeAnalysis.isWeekendWarrior = (2 * weekend > weekday)
            /\ Len(input) = 0 => analysis.timeAnalysis.isWeekendWarrior = FALSE

\* one Sunday commit against a Monday and a Friday commit: exactly 50%, and
\* not a weekend warrior
C12_Witness ==
    /\ pc = "analyzed"
    /\ Len(input) = 3
    /\ DateStr(input[1]) = <<2025, 1, 5>>
    /\ DateStr(input[2]) = <<2025, 1, 6>>
    /\ DateStr(input[3]) = <<2025, 1, 10>>
    /\ analysis.timeAnalysis.weekendCommits = 1
    /\ analysis.timeAnalysis.weekdayCommits = 2
    /\ analysis.timeAnalysis.isWeekendWarrior = FALSE

----------------------------------------------------------------------------
(* C13: for every project whose activeDayCount equals its daySpan,          *)
(* blitzScore is exactly 0, whatever its commit count.                      *)

C13_BlitzScoreZeroWhenEveryDayActive ==
    pc = "analyzed" =>
        \A repo \in DOMAIN analysis.repoMap :
            LET entry == analysis.repoMap[repo]
            IN  entry.activeDaysCount = entry.daysSpan => entry.blitzScore.num = 0

\* a project with two commits 34 hours apart on two calendar days: two
\* active days in a span of two days
C13_Witness ==
    /\ pc = "analyzed"
    /\ "octo/app" \in DOMAIN analysis.repoMap
    /\ LET entry == analysis.repoMap["octo/app"]
       IN  /\ entry.commitCount = 2
           /\ entry.lastCommit - entry.firstCommit = 34
           /\ entry.activeDaysCount = 2
           /\ entry.daysSpan = 2
           /\ entry.blitzScore.num = 0

----------------------------------------------------------------------------
(* C14: for every set of projects, a project with fixes <= 3 is never       *)
(* selected as mostProblematic, a project with commits <= 10 is never       *)
(* selected as blitzRepo, and a project with activeDays <= 5 is never       *)
(* selected as steadiest (all three thresholds are strict).                 *)

\* the commits of a project among those analysed
CommitsOf(repo) == { k \in 1..Len(input) : input[k].repo = repo }

\* how many of them are fixes
FixesOf(repo) ==
    Cardinality({ k \in CommitsOf(repo) : Hit(bugKeywords, k) })

\* on how many calendar days they were made
ActiveDaysOf(repo) == Cardinality({ DateStr(input[k]) : k \in CommitsOf(repo) })

----------------------------------------------------------------------------
(* C15: when several eligible projects share the maximal ranking key of a   *)
(* highlight category (commitCount, problemRatio, blitzScore, featureCount  *)
(* or activeDayCount), the winner is the one first encountered in the       *)
(* accumulator iteration, i.e. the project whose first commit appears       *)
(* earliest in the commit list.                                             *)

\* where the first commit of a project stands in the commit list
FirstCommitAt(repo) == CHOOSE k \in CommitsOf(repo) : \A j \in CommitsOf(repo) : k <= j

AnyProject(entry) == TRUE
MoreFixesThan3(entry) == entry.fixes > 3
MoreCommitsThan10(entry) == entry.commitCount > 10
MoreActiveDaysThan5(entry) == entry.activeDaysCount > 5

MoreCommits(a, b) == a.commitCount > b.commitCount
HigherProblemRatio(a, b) == a.fixes * b.commitCount > b.fixes * a.commitCount
HigherBlitzScore(a, b) ==
    a.blitzScore.num * b.blitzScore.den > b.blitzScore.num * a.blitzScore.den
MoreFeatures(a, b) == a.features > b.features
MoreActiveDays(a, b) == a.activeDaysCount > b.activeDaysCount

\* eligibility and ranking of the five highlight categories
EligibleIn(category, entry) ==
    CASE category = "mostProblematic" -> MoreFixesThan3(entry)
      [] category = "blitzRepo" -> MoreCommitsThan10(entry)
      [] category = "steadiest" -> MoreActiveDaysThan5(entry)
      [] OTHER -> AnyProject(entry)

BetterIn(category, a, b) ==
    CASE category = "mostActive" -> MoreCommits(a, b)
      [] category = "mostProblematic" -> HigherProblemRatio(a, b)
      [] category = "blitzRepo" -> HigherBlitzScore(a, b)
      [] category = "mostFeatures" -> MoreFeatures(a, b)
      [] category = "steadiest" -> MoreActiveDays(a, b)

\* among the eligible projects none of which is better, the one whose first
\* commit comes earliest; Null when no project is eligible
FirstEncounteredBest(repoMap, category) ==
    LET eligible == { repo \in DOMAIN repoMap : EligibleIn(category, repoMap[repo]) }
        best == { repo \in eligible :
                    \A other \in eligible : ~BetterIn(category, repoMap[other], repoMap[repo]) }
    IN  IF best = {} THEN Null
        ELSE CHOOSE repo \in best :
                 \A other \in best : FirstCommitAt(repo) <= FirstCommitAt(other)

\* the project a highlight names, Null for an empty highlight
NameOf(highlight) == IF highlight = Null THEN Null ELSE highlight.name

\* C15 as stated: a tie on the ranking key goes to the project first
\* encountered
C15_TiesGoToFirstEncountered ==
    pc = "analyzed" =>
        LET highlights == snapshot.repoHighlights
            repoMap == analysis.repoMap
        IN  /\ NameOf(highlights.mostActive)
                   = FirstEncounteredBest(repoMap, "mostActive")
            /\ NameOf(highlights.mostProblematic)
                   = FirstEncounteredBest(repoMap, "mostProblematic")
            /\ NameOf(highlights.blitzRepo)
                   = FirstEncounteredBest(repoMap, "blitzRepo")
            /\ NameOf(highlights.mostFeatures)
                   = FirstEncounteredBest(repoMap, "mostFeatures")
            /\ NameOf(highlights.steadiest)
                   = FirstEncounteredBest(repoMap, "steadiest")

\* C15 as the selection is made: the projects are first sorted by descending
\* commit count, and every later sort is stable.  Among the eligible
\* projects that share the maximal ranking key the winner is the one with
\* the most commits, and among those of equal commit count the one whose
\* first commit appears earliest in the commit list.
FirstByCommitsBest(repoMap, category) ==
    LET eligible == { repo \in DOMAIN repoMap : EligibleIn(category, repoMap[repo]) }
        best == { repo \in eligible :
                    \A other \in eligible : ~BetterIn(category, repoMap[other], repoMap[repo]) }
        largest == { repo \in best :
                       \A other \in best : ~MoreCommits(repoMap[other], repoMap[repo]) }
    IN  IF largest = {} THEN Null
        ELSE CHOOSE repo \in largest :
                 \A other \in largest : FirstCommitAt(repo) <= FirstCommitAt(other)

\* C15, amended: a tie on the ranking key goes to the tied project with the
\* most commits, and only then to the one first encountered
C15_TiesGoToMostCommitsThenFirstEncountered ==
    pc = "analyzed" =>
        LET highlights == snapshot.repoHighlights
            repoMap == analysis.repoMap
        IN  /\ NameOf(highlights.mostActive)
                   = FirstByCommitsBest(repoMap, "mostActive")
            /\ NameOf(highlights.mostProblematic)
                   = FirstByCommitsBest(repoMap, "mostProblematic")
            /\ NameOf(highlights.blitzRepo)
                   = FirstByCommitsBest(repoMap, "blitzRepo")
            /\ NameOf(highlights.mostFeatures)
                   = FirstByCommitsBest(repoMap, "mostFeatures")
            /\ NameOf(highlights.steadiest)
                   = FirstByCommitsBest(repoMap, "steadiest")

\* the first project of the list has 4 fixes and 2 features in 8 commits,
\* the second 8 fixes and 2 features in 16 commits: they tie on problemRatio
\* and on features, and the second one is selected for both
C15_Witness ==
    /\ pc = "analyzed"
    /\ analysis.repoOrder = <<"octo/app", "octo/lib">>
    /\ analysis.repoMap["octo/app"].fixes = 4
    /\ analysis.repoMap["octo/app"].features = 2
    /\ analysis.repoMap["octo/app"].commitCount = 8
    /\ analysis.repoMap["octo/lib"].fixes = 8
    /\ analysis.repoMap["octo/lib"].features = 2
    /\ analysis.repoMap["octo/lib"].commitCount = 16
    /\ snapshot.repoHighlights.mostProblematic.name = "octo/lib"
    /\ snapshot.repoHighlights.mostFeatures.name = "octo/lib"

----------------------------------------------------------------------------
(* C16: with no truncation or error at any granularity, the final           *)
(* snapshot's totalCommits equals the number of distinct upstream commits   *)
(* of the year, the number of project entries equals the number of distinct *)
(* repositories among them, the per-project commit counts sum to            *)
(* totalCommits, incomplete is false, and mostActive is non-null and names  *)
(* a project with the largest commit count (e.g. 450 commits over 3         *)
(* projects give totalCommits = 450 and 3 projects).                        *)

\* the crawl ended, and no search was truncated or failed
CrawledWithoutTruncation ==
    /\ pc = "done"
    /\ upstream.kind = "github"
    /\ ~faulted /\ ~bisected /\ ~keptIncomplete

\* the repositories of the upstream's commits of the year
YearRepositories(up, y) == { UpstreamCommit(up, sha).repo : sha \in YearShas(up, y) }

\* how many of the upstream's commits of the year a repository holds
YearCommitsIn(up, y, repo) ==
    Cardinality({ sha \in YearShas(up, y) : UpstreamCommit(up, sha).repo = repo })

\* everything C16 says of the snapshot but the incomplete flag
TotalsMatchUpstream ==
    CrawledWithoutTruncation =>
        LET projects == snapshot.stats.allRepositories
            shas == YearShas(upstream, year)
            repos == YearRepositories(upstream, year)
        IN  /\ snapshot.stats.totalCommits = Cardinality(shas)
            /\ Len(projects) = Cardinality(repos)
            /\ snapshot.stats.repositoriesContributed = Cardinality(repos)
            /\ { projects[k].fullName : k \in 1..Len(projects) } = repos
            /\ SumField(projects, "commits", 1) = snapshot.stats.totalCommits
            /\ shas # {} =>
                   /\ snapshot.repoHighlights.mostActive # Null
                   /\ snapshot.repoHighlights.mostActive.name \in repos
                   /\ \A repo \in repos :
                          YearCommitsIn(upstream, year, repo)
                              <= YearCommitsIn(upstream, year,
                                               snapshot.repoHighlights.mostActive.name)
                   /\ snapshot.repoHighlights.mostActive.commits
                          = YearCommitsIn(upstream, year,
                                          snapshot.repoHighlights.mostActive.name)
            /\ scenario = "ThreeProjects2025" =>
                   snapshot.stats.totalCommits = 450 /\ Len(projects) = 3

C16_EndToEndSnapshot ==
    /\ TotalsMatchUpstream
    /\ CrawledWithoutTruncation =>
           "incomplete" \in DOMAIN snapshot /\ snapshot.incomplete = FALSE

----------------------------------------------------------------------------
\* the user lookup of this run has failed
UserLookupFailed ==
    \E k \in 1..Len(outbound) : outbound[k] = UserLookup("failed")

\* C17: once the user lookup for the subject has failed, the run has ended
\* with an error: the caller's answer carries an error and no snapshot,
\* nothing is cached, no snapshot exists, and no commit range search has been
\* issued.
C17_UserLookupFailureIsFatal ==
    UserLookupFailed =>
        /\ pc = "failed"
        /\ "error" \in DOMAIN response
        /\ "body" \notin DOMAIN response
        /\ "output" \notin DOMAIN response
        /\ impl = "worker" => response.status = 500
        /\ impl = "workflow" => response.instance = "errored"
        /\ snapshot = <<>>
        /\ cache = NoCache
        /\ issued = <<>>
        /\ allCommits = <<>>

\* a worker run whose user lookup failed and was answered with status 500
C17_Witness ==
    /\ impl = "worker"
    /\ outbound = <<UserLookup("failed")>>
    /\ pc = "failed"
    /\ response # NoResponse
    /\ response.status = 500

----------------------------------------------------------------------------
\* the crawl has ended and found no commit
CrawlFoundNothing == pc = "done" /\ allCommits = <<>>

\* what a snapshot of zero commits holds, the insights apart
EmptySnapshot(s) ==
    /\ s.stats.totalCommits = 0
    /\ s.stats.repositoriesContributed = 0
    /\ s.stats.allRepositories = <<>>
    /\ s.repoHighlights.mostActive = Null
    /\ s.repoHighlights.mostProblematic = Null
    /\ s.repoHighlights.blitzRepo = Null
    /\ s.repoHighlights.mostFeatures = Null
    /\ s.repoHighlights.steadiest = Null
    /\ s.streaks.longestStreak = 0
    /\ s.streaks.longestStreakStart = Null
    /\ s.streaks.longestStreakEnd = Null
    /\ s.timeAnalysis.codingStyle = "balanced"
    /\ s.timeAnalysis.isWeekendWarrior = FALSE

\* the run was answered with its snapshot, not with an error
AnsweredWithSnapshot ==
    /\ "error" \notin DOMAIN response
    /\ impl = "worker" => response.status = 200 /\ response.body = snapshot
    /\ impl = "workflow" => response.instance = "complete" /\ response.output = snapshot

\* C18 as stated: when the crawl finds zero commits, nothing throws and the
\* snapshot has totalCommits = 0, no projects, all five highlights null,
\* longestStreak = 0 with null start and end, codingStyle = balanced,
\* isWeekendWarrior = false and insights = null.
C18_ZeroCommitsSnapshot ==
    CrawlFoundNothing =>
        /\ AnsweredWithSnapshot
        /\ EmptySnapshot(snapshot)
        /\ "insights" \in DOMAIN snapshot
        /\ snapshot.insights = Null

\* C18 amended: when the crawl finds zero commits, nothing throws and the
\* snapshot has totalCommits = 0, no projects, all five highlights null,
\* longestStreak = 0 with null start and end, codingStyle = balanced and
\* isWeekendWarrior = false; the worker's snapshot has insights = null, the
\* workflow's result has no insights entry at all.
C18_ZeroCommitsSnapshotPerCopy ==
    CrawlFoundNothing =>
        /\ AnsweredWithSnapshot
        /\ EmptySnapshot(snapshot)
        /\ impl = "worker" => "insights" \in DOMAIN snapshot /\ snapshot.insights = Null
        /\ impl = "workflow" => "insights" \notin DOMAIN snapshot

\* a worker crawl of a year without any commit has been answered
C18_Witness ==
    /\ impl = "worker"
    /\ scenario = "Idle2025"
    /\ CrawlFoundNothing
    /\ snapshot.stats.totalCommits = 0
    /\ snapshot.insights = Null

----------------------------------------------------------------------------
\* the callback request has been answered
CallbackAnswered == request.path = "/api/oauth/callback" /\ pc = "answered"

\* the value of the oauth_state cookie as the Cookie header carries it
\* (empty when the cookie has no value), or Absent without such a cookie
OAuthStateCookie(req) ==
    LET at == { k \in 1..Len(req.cookie) : req.cookie[k][1] = "oauth_state" }
    IN  IF at = {} THEN Absent
        ELSE LET cookie == req.cookie[CHOOSE k \in at : \A j \in at : j <= k]
             IN  IF Len(cookie) >= 2 THEN cookie[2] ELSE ""

StateMatches ==
    /\ request.state \notin {Absent, ""}
    /\ OAuthStateCookie(request) = request.state

ContactedTokenEndpoint ==
    \E k \in 1..Len(outbound) : outbound[k][1] = "/login/oauth/access_token"

SetsSessionCookie ==
    \E k \in 1..Len(response.setCookie) : response.setCookie[k].name = SESSION_COOKIE_NAME

ClearsStateCookie ==
    \E k \in 1..Len(response.setCookie) : response.setCookie[k] = ClearStateCookie

\* C19: the OAuth callback contacts the token endpoint (with the request's
\* authorization code) and sets a session cookie only if the state parameter
\* is non-empty and equals the oauth_state cookie; in every other case it
\* answers 400, clears the state cookie, never contacts the token endpoint
\* and sets no session cookie.
C19_CallbackRequiresMatchingState ==
    CallbackAnswered =>
        /\ (ContactedTokenEndpoint \/ SetsSessionCookie) => StateMatches
        /\ \A k \in 1..Len(outbound) :
               outbound[k][1] = "/login/oauth/access_token" => outbound[k][2] = request.code
        /\ SetsSessionCookie => response.status = 302 /\ ContactedTokenEndpoint
        /\ ~StateMatches =>
               /\ response.status = 400
               /\ ClearsStateCookie
               /\ ~ContactedTokenEndpoint
               /\ ~SetsSessionCookie

\* a callback whose state equals the cookie was exchanged and signed in
C19_Witness ==
    /\ CallbackAnswered
    /\ request.state = "c09e"
    /\ request.cookie = <<SessionCookie, StateCookie("c09e")>>
    /\ request.code = "code-1"
    /\ outbound = <<TokenExchange("code-1", "ok"), AuthenticatedUser(AccessToken, "ok")>>
    /\ response.status = 302
    /\ SetsSessionCookie

----------------------------------------------------------------------------
\* a /api/wrapped request without username whose session, if any, did not
\* yield a user, has been handled
WrappedWithoutUser ==
    /\ request.path = "/api/wrapped"
    /\ pc # "request"
    /\ request.username \in {Absent, ""}
    /\ ~\E k \in 1..Len(outbound) : outbound[k][1] = "/user" /\ outbound[k][3] = "ok"

\* the message holds the words "Username is required"
SaysUsernameRequired(message) ==
    \E rest \in {"", ". Please sign in to view your own stats or provide a username to view someone else's."} :
        message = "Username is required" \o rest

\* C20: a /api/wrapped request with no username and no usable session token
\* is answered with status 400 and an error message containing "Username is
\* required"; the cache is not consulted and no crawl is started for it.
C20_UsernameRequired ==
    WrappedWithoutUser =>
        /\ pc = "answered"
        /\ response.status = 400
        /\ SaysUsernameRequired(response.error)
        /\ ~\E k \in 1..Len(outbound) : outbound[k][1] = "cache.match"
        /\ ~\E k \in 1..Len(outbound) : outbound[k] \in {UserLookup("ok"), UserLookup("failed")}
        /\ issued = <<>>
        /\ snapshot = <<>>
        /\ cache \in {NoCache, EarlierAnswer}

\* an empty username with a session whose user lookup failed was refused
C20_Witness ==
    /\ request.path = "/api/wrapped"
    /\ request.username = ""
    /\ request.cookie = <<SessionCookie>>
    /\ outbound = <<AuthenticatedUser("gho_session", "failed")>>
    /\ pc = "answered"
    /\ response.status = 400

----------------------------------------------------------------------------
\* the week-level searches issued for the month in progress, in order
WeekChunks ==
    SelectSeq(issued, LAMBDA q : q[1] = "week" /\ q[2][2] = monthIdx)

\* how many calendar days the range start..end holds
SpanDays(start, end) == ParseDate(end) - ParseDate(start) + 1

\* C21: when a month is bisected, its week chunks partition the month: every
\* calendar day of the month lies in exactly one chunk, the chunks are
\* consecutive and in ascending date order, every chunk spans at most 7 days
\* and only the last chunk may be shorter than 7 days.
C21_WeekChunksPartitionMonth ==
    (pc = "merge" /\ bisected) =>
        LET chunks == WeekChunks
            n == Len(chunks)
            first == ParseDate(months[monthIdx].start)
            last == ParseDate(months[monthIdx].end)
        IN  /\ n >= 1
            /\ \A day \in first..last :
                   Cardinality({ k \in 1..n : /\ ParseDate(chunks[k][2]) <= day
                                              /\ day <= ParseDate(chunks[k][3]) }) = 1
            /\ \A k \in 1..n :
                   /\ first <= ParseDate(chunks[k][2])
                   /\ ParseDate(chunks[k][3]) <= last
                   /\ SpanDays(chunks[k][2], chunks[k][3]) \in 1..7
                   /\ k < n => SpanDays(chunks[k][2], chunks[k][3]) = 7
                   /\ k < n => ParseDate(chunks[k + 1][2]) = ParseDate(chunks[k][3]) + 1

\* April 2023 was bisected into four chunks of seven days and one of two
C21_Witness ==
    /\ pc = "merge" /\ bisected
    /\ scenario = "RefusedMonths2023" /\ monthIdx = 4
    /\ Len(WeekChunks) = 5
    /\ WeekChunks[1] = <<"week", <<2023, 4, 1>>, <<2023, 4, 7>>>>
    /\ WeekChunks[5] = <<"week", <<2023, 4, 29>>, <<2023, 4, 30>>>>

----------------------------------------------------------------------------
TruncatedWeekReturned ==
    /\ pc = "return" /\ level = "week"
    /\ search.incomplete /\ search.totalCount > ResultCap

\* the day-level searches issued right after the k-th search
DaySearchesAfter(k) ==
    LET others == { j \in (k + 1)..Len(issued) : issued[j][1] # "day" }
        stop == IF others = {} THEN Len(issued) + 1
                ELSE CHOOSE j \in others : \A n \in others : j <= n
    IN  SubSeq(issued, k + 1, stop - 1)

\* the searches after the k-th have left its chunk
ChunkFinished(k) ==
    \/ Len(DaySearchesAfter(k)) < Len(issued) - k
    \/ pc \in {"merge", "month", "crawled", "done"}

\* each calendar day of start..end as a single-day search, in order
SingleDaySearches(start, end) ==
    [n \in 1..SpanDays(start, end) |->
        <<"day", ToISODate(ParseDate(start) + n - 1), ToISODate(ParseDate(start) + n - 1)>>]

IsPrefix(a, b) == Len(a) <= Len(b) /\ a = SubSeq(b, 1, Len(a))

\* C22: when a week chunk's search returns incomplete = true with
\* totalCount > 1000, the week-level result is discarded and every calendar
\* day of that chunk is searched exactly once as a single-day range;
\* day-level results are taken as they are and no range finer than one day
\* is ever searched, whatever the day-level result reports.
C22_TruncatedWeekGoesDayByDay ==
    /\ [][TruncatedWeekReturned =>
              /\ result' = result
              /\ pc' = "fetch" /\ level' = "day"
              /\ issued' = Append(issued, <<"day", search.start, search.start>>)]_vars
    /\ [][pc = "return" /\ level = "day" =>
              /\ result'.commits = result.commits \o search.commits
              /\ \/ pc' = "merge" /\ issued' = issued
                 \/ /\ pc' = "fetch" /\ level' \in {"day", "week"}
                    /\ Len(issued') = Len(issued) + 1]_vars
    /\ [](\A k \in 1..Len(issued) :
              /\ issued[k][1] = "day" => issued[k][2] = issued[k][3]
              /\ issued[k][1] = "week" =>
                     LET daily == DaySearchesAfter(k)
                         all == SingleDaySearches(issued[k][2], issued[k][3])
                     IN  /\ IsPrefix(daily, all)
                         /\ ChunkFinished(k) => daily = <<>> \/ daily = all)

\* the week of 15 to 21 June 2025 was searched day by day; the search of the
\* 15th reported 1001 commits and returned 1000, which were taken as they
\* are
C22_Witness ==
    /\ pc = "merge" /\ bisected
    /\ scenario = "BusyDay2025" /\ monthIdx = 6
    /\ sources = << <<"week", 0>>, <<"week", 0>>, <<"day", 1000>>, <<"day", 0>>, <<"day", 0>>,
                    <<"day", 0>>, <<"day", 0>>, <<"day", 0>>, <<"day", 0>>, <<"week", 0>>,
                    <<"week", 0>> >>
    /\ \E k \in 1..Len(issued) :
           /\ issued[k] = <<"week", <<2025, 6, 15>>, <<2025, 6, 21>>>>
           /\ DaySearchesAfter(k) = SingleDaySearches(<<2025, 6, 15>>, <<2025, 6, 21>>)

----------------------------------------------------------------------------
\* the page that the step has read held n items at most
PageReadBelow(n) ==
    /\ FetchPage
    /\ Len(UpstreamItems(upstream, search.start, search.end, search.page)) < n

\* the step has read a full page 10
FullLastPageRead ==
    /\ FetchPage
    /\ search.page = MaxPages
    /\ Len(UpstreamItems(upstream, search.start, search.end, search.page)) = PerPage

\* the parts of C23 that concern the end of a range search
StopsOnShortOrLastPage ==
    /\ [][PageReadBelow(PerPage) => pc' = "return"]_vars
    /\ [][FullLastPageRead =>
              /\ pc' = "return"
              /\ search'.incomplete = (search'.totalCount > ResultCap)]_vars

\* C23: a range search never requests a page index above 10 and stops as
\* soon as a page returns fewer than 100 items; when it stops because page
\* 10 was reached, incomplete is true if and only if the reported total
\* exceeds 1000.
C23_PaginationStops ==
    /\ [](pc = "fetch" => search.page <= MaxPages)
    /\ StopsOnShortOrLastPage

\* the same of the worker alone; it holds
PaginationStopsInWorker ==
    /\ [](impl = "worker" /\ pc = "fetch" => search.page <= MaxPages)
    /\ [][impl = "worker" /\ PageReadBelow(PerPage) => pc' = "return"]_vars
    /\ [][impl = "worker" /\ FullLastPageRead =>
              /\ pc' = "return"
              /\ search'.incomplete = (search'.totalCount > ResultCap)]_vars

----------------------------------------------------------------------------
\* a range search has returned and searchAllCommitsByUser can take its next
\* step
CrawlGoesOn ==
    ENABLED (MonthAccept \/ MonthBisect \/ WeekAccept \/ WeekBisect \/ DayAccept)

\* every month of the year has been searched at month level
EveryMonthSearched ==
    \A m \in 1..12 :
        \E k \in 1..Len(issued) :
            issued[k] = <<"month", MonthRanges(year)[m].start, MonthRanges(year)[m].end>>

\* C24: on an HTTP 403 for any page of a range, the range search requests no
\* further page and returns exactly the commits collected from the earlier
\* pages, with incomplete = true; no error is raised, and the crawl goes on
\* to the remaining ranges: the caller takes its next step, the run fails
\* only on the user lookup, and a crawl that ends has searched all 12 months.
C24_QuotaFailureEndsRangeOnly ==
    /\ [][Fetch403 =>
              /\ pc' = "return"
              /\ search'.commits = search.commits
              /\ search'.page = search.page
              /\ search'.incomplete = TRUE
              /\ issued' = issued]_vars
    /\ [](pc = "return" => CrawlGoesOn)
    /\ [](pc = "failed" => issued = <<>>)
    /\ [](pc \in {"crawled", "done"} => EveryMonthSearched)

\* the second page of a month was refused with 403: the search has returned
\* the 100 commits of the first page, marked incomplete
C24_Witness ==
    /\ scenario = "RefusedMonths2023" /\ monthIdx = 3
    /\ pc = "return" /\ level = "month"
    /\ search.page = 2
    /\ search.commits = Run(201, 100)
    /\ search.incomplete
    /\ faulted

----------------------------------------------------------------------------
\* the step ends a month-level or week-level search with HTTP 422
EndsWith422 ==
    /\ level \in {"month", "week"}
    /\ Fetch422 \/ FetchBeyondCap

\* C25: when a month-level or week-level range search ends with HTTP 422,
\* the crawler bisects that range into the next finer granularity instead of
\* accepting its partial result as final: the result the search returns is
\* one that searchAllCommitsByUser splits (MonthBisect, WeekBisect) and does
\* not take (MonthAccept, WeekAccept).
C25_TooBroadIsBisected ==
    [][EndsWith422 => pc' = "return" /\ NeedsSplit(search')]_vars

\* where a 422 does lead to a bisection: the total reported by an earlier
\* page of the same search exceeds 1000
BisectedOnlyWithLargeTotal ==
    [][EndsWith422 =>
           /\ pc' = "return" /\ search'.incomplete
           /\ NeedsSplit(search') <=> search.totalCount > ResultCap]_vars

----------------------------------------------------------------------------
\* C26: on any other HTTP error status or thrown network error for a page,
\* the range search requests no further page of that range (no retry) and
\* returns the commits collected so far; the result is not marked incomplete,
\* so the crawler accepts it and takes its next step; the failure never
\* aborts the crawl: the run fails only on the user lookup, and a crawl that
\* ends has searched all 12 months.
C26_TransportFailureEndsRangeOnly ==
    /\ [][(FetchOtherStatus \/ FetchThrows) =>
              /\ pc' = "return"
              /\ search'.commits = search.commits
              /\ search'.page = search.page
              /\ ~search'.incomplete /\ ~NeedsSplit(search')
              /\ issued' = issued]_vars
    /\ [][(pc = "return" /\ ~search.incomplete) =>
              /\ result'.commits = (IF level = "month" THEN <<>> ELSE result.commits)
                                       \o search.commits
              /\ pc' = "merge" \/ (pc' = "fetch" /\ search'.start # search.start)]_vars
    /\ [](pc = "return" => CrawlGoesOn)
    /\ [](pc = "failed" => issued = <<>> /\ UserLookupFailed)
    /\ [](pc \in {"crawled", "done"} => EveryMonthSearched)

\* the first page of March 2024 failed with status 500 and the first page
\* of December 2024 threw; both months were taken as empty (the commit of
\* 25 December is missing) and the year was crawled to its end
C26_Witness ==
    /\ scenario = "Flaky2024"
    /\ pc = "crawled"
    /\ faulted
    /\ allCommits = <<3, 4, 5>>
    /\ Len(issued) = 12
    /\ issued[12] = <<"month", <<2024, 12, 1>>, <<2024, 12, 31>>>>

----------------------------------------------------------------------------
(* C27: a project with at least one commit on every calendar day from the   *)
(* day of its first commit to the day of its last commit has blitzScore     *)
(* exactly 0, whatever its commit count and the hours of its commits.       *)

\* the calendar days (as day numbers) this repository has commits on
ActiveDayNumbers(repo) ==
    { input[k].date \div 24 : k \in { j \in 1..Len(input) : input[j].repo = repo } }

\* the repository has a commit on every calendar day from the day of its
\* first commit to the day of its last
ActiveEveryCalendarDay(repo) ==
    LET entry == analysis.repoMap[repo]
    IN  \A day \in (entry.firstCommit \div 24)..(entry.lastCommit \div 24) :
            day \in ActiveDayNumbers(repo)

C27_BlitzScoreZeroOnEveryCalendarDay ==
    pc = "analyzed" =>
        \A repo \in DOMAIN analysis.repoMap :
            ActiveEveryCalendarDay(repo) => analysis.repoMap[repo].blitzScore.num = 0

\* what the code computes for such a project: its span is the time from the
\* first to the last commit rounded up to whole days, so the score is 0 only
\* if that span has as many days as the project has active days, and is
\* negative when the span falls short of them
BlitzScoreSignOnEveryCalendarDay ==
    pc = "analyzed" =>
        \A repo \in DOMAIN analysis.repoMap :
            LET entry == analysis.repoMap[repo]
            IN  ActiveEveryCalendarDay(repo) =>
                    /\ entry.daysSpan <= entry.activeDaysCount
                    /\ entry.blitzScore.num <= 0
                    /\ entry.blitzScore.num = 0 <=> entry.daysSpan = entry.activeDaysCount

----------------------------------------------------------------------------
(* C28: every project accumulator has commitCount >= 1, 1 <= activeDayCount *)
(* <= commitCount, daySpan >= 1 and 0 <= fixes <= commitCount, so that      *)
(* problemRatio, velocity and blitzScore never divide by zero and           *)
(* 0 <= problemRatio <= 1; an accumulator is created only by the first      *)
(* commit of its project and is never removed.                              *)

\* the commits the loop has handled
Handled == SubSeq(input, 1, Len(categories))

\* the repositories of the commits the loop has handled
HandledRepos == { Handled[k].repo : k \in 1..Len(Handled) }

\* an accumulator while the loop runs
AccumulatorInBounds(repo) ==
    /\ repo.commitCount >= 1
    /\ 1 <= Cardinality(repo.activeDays)
    /\ Cardinality(repo.activeDays) <= repo.commitCount
    /\ DaySpan(repo.firstCommit, repo.lastCommit) >= 1
    /\ 0 <= repo.fixes /\ repo.fixes <= repo.commitCount

\* an accumulator with its metrics
MetricsInBounds(entry) ==
    /\ entry.commitCount >= 1
    /\ 1 <= entry.activeDaysCount /\ entry.activeDaysCount <= entry.commitCount
    /\ entry.daysSpan >= 1
    /\ 0 <= entry.fixes /\ entry.fixes <= entry.commitCount
    /\ entry.commitsPerActiveDay.den > 0
    /\ entry.problemRatio.den > 0
    /\ entry.velocity.den > 0
    /\ entry.blitzScore.den > 0
    /\ 0 <= entry.problemRatio.num /\ entry.problemRatio.num <= entry.problemRatio.den

C28_AccumulatorBounds ==
    /\ [](pc = "loop" =>
            /\ DOMAIN analysis.repoMap = HandledRepos
            /\ \A repo \in DOMAIN analysis.repoMap :
                   AccumulatorInBounds(analysis.repoMap[repo]))
    /\ [](pc = "analyzed" =>
            /\ DOMAIN analysis.repoMap = HandledRepos
            /\ \A repo \in DOMAIN analysis.repoMap :
                   MetricsInBounds(analysis.repoMap[repo]))
    /\ [][AnalyzeCommit =>
            LET commit == input[Len(categories) + 1]
            IN  /\ DOMAIN analysis'.repoMap = DOMAIN analysis.repoMap \cup {commit.repo}
                /\ \A repo \in DOMAIN analysis.repoMap :
                       IF repo = commit.repo
                       THEN analysis'.repoMap[repo].commitCount =
                                analysis.repoMap[repo].commitCount + 1
                       ELSE analysis'.repoMap[repo] = analysis.repoMap[repo]]_vars
    /\ [][AnalyzeMetrics => DOMAIN analysis'.repoMap = DOMAIN analysis.repoMap]_vars

\* the loop is at the third commit of octo/app, made the day before the
\* other two: the accumulator it made for the first of them counts two
\* commits on two days, and the one of octo/lib one commit
C28_Witness ==
    /\ pc = "loop"
    /\ Len(categories) = 3
    /\ Len(input) = 4
    /\ input[4].repo = "octo/app"
    /\ DOMAIN analysis.repoMap = {"octo/app", "octo/lib"}
    /\ analysis.repoMap["octo/app"].commitCount = 2
    /\ Cardinality(analysis.repoMap["octo/app"].activeDays) = 2
    /\ analysis.repoMap["octo/app"].fixes = 1
    /\ analysis.repoMap["octo/lib"].commitCount = 1

----------------------------------------------------------------------------
(* C29: each of the five highlights is selected on its own: it is null if   *)
(* and only if no project passes the threshold of its category, and         *)
(* otherwise names an eligible project whose ranking key is maximal among   *)
(* the eligible projects; one project may win several categories, and       *)
(* mostFeatures is non-null whenever any project exists, even with zero     *)
(* feature commits.                                                         *)

HighlightCategories ==
    {"mostActive", "mostProblematic", "blitzRepo", "mostFeatures", "steadiest"}

\* the projects that pass the threshold of a category
EligibleProjects(category) ==
    { repo \in DOMAIN analysis.repoMap : EligibleIn(category, analysis.repoMap[repo]) }

\* the categories whose highlight names this project
WonBy(repo) ==
    { category \in HighlightCategories :
          NameOf(snapshot.repoHighlights[category]) = repo }

C29_HighlightsAreBestEligible ==
    pc = "analyzed" =>
        /\ \A category \in HighlightCategories :
               LET highlight == snapshot.repoHighlights[category]
                   eligible == EligibleProjects(category)
               IN  /\ highlight = Null <=> eligible = {}
                   /\ highlight # Null =>
                          /\ highlight.name \in eligible
                          /\ \A other \in eligible :
                                 ~BetterIn(category, analysis.repoMap[other],
                                           analysis.repoMap[highlight.name])
        /\ DOMAIN analysis.repoMap # {} => snapshot.repoHighlights.mostFeatures # Null

\* two projects without a feature commit, of 3 and of 11 commits: the second
\* is mostActive, blitzRepo and mostFeatures (with 0 features), and no
\* project is mostProblematic or steadiest
C29_Witness ==
    /\ pc = "analyzed"
    /\ analysis.repoOrder = <<"octo/app", "octo/lib">>
    /\ analysis.repoMap["octo/app"].commitCount = 3
    /\ analysis.repoMap["octo/lib"].commitCount = 11
    /\ analysis.repoMap["octo/app"].features = 0
    /\ analysis.repoMap["octo/lib"].features = 0
    /\ WonBy("octo/lib") = {"mostActive", "blitzRepo", "mostFeatures"}
    /\ snapshot.repoHighlights.mostFeatures.features = 0
    /\ snapshot.repoHighlights.mostProblematic = Null
    /\ snapshot.repoHighlights.steadiest = Null

----------------------------------------------------------------------------
(* C30: the aggregation does not depend on the processing order: for any    *)
(* permutation of the same commit list, the category of each commit, the    *)
(* three histograms, each project's commitCount, category counters,         *)
(* firstCommit (the minimal timestamp), lastCommit (the maximal timestamp)  *)
(* and activeDaysCount, and the longest streak with its start and end       *)
(* dates are the same.                                                      *)

\* lists of up to this many commits are taken in every order
MaxPermuted == 3

\* orders to process n commits in, each a permutation of 1..n: all of them
\* for a short list, else the reverse order, the rotations and the exchanges
\* of two neighbours
Orders(n) ==
    IF n <= MaxPermuted THEN Permutations(1..n)
    ELSE {[k \in 1..n |-> n + 1 - k]}
         \cup { [k \in 1..n |-> ((k + r - 1) % n) + 1] : r \in 1..(n - 1) }
         \cup { [k \in 1..n |-> IF k = j THEN j + 1 ELSE IF k = j + 1 THEN j ELSE k] :
                    j \in 1..(n - 1) }

\* the commits analysed, in this order
Reordered(order) == [k \in 1..Len(input) |-> input[order[k]]]

\* what analyzeCommits returns for the commits in this order
AnalysisIn(order) == AfterLoop(Loop(LoopStart, Reordered(order)))

C30_AggregationIsOrderIndependent ==
    pc = "analyzed" =>
        \A order \in Orders(Len(input)) :
            LET other == AnalysisIn(order)
            IN  /\ \A k \in 1..Len(input) :
                       Categorize(Reordered(order)[k].message) = categories[order[k]]
                /\ other.timeAnalysis.hourlyActivity = analysis.timeAnalysis.hourlyActivity
                /\ other.timeAnalysis.dailyActivity = analysis.timeAnalysis.dailyActivity
                /\ other.timeAnalysis.monthlyActivity = analysis.timeAnalysis.monthlyActivity
                /\ DOMAIN other.repoMap = DOMAIN analysis.repoMap
                /\ \A repo \in DOMAIN analysis.repoMap :
                       LET a == analysis.repoMap[repo]
                           b == other.repoMap[repo]
                       IN  /\ b.commitCount = a.commitCount
                           /\ \A counter \in {"fixes", "features", "refactors",
                                              "docs", "tests", "other"} :
                                  b[counter] = a[counter]
                           /\ b.firstCommit = a.firstCommit
                           /\ b.lastCommit = a.lastCommit
                           /\ b.activeDaysCount = a.activeDaysCount
                           /\ \A k \in CommitsOf(repo) :
                                  /\ a.firstCommit <= input[k].date
                                  /\ input[k].date <= a.lastCommit
                /\ other.streaks.longestStreak = analysis.streaks.longestStreak
                /\ other.streaks.longestStreakStart = analysis.streaks.longestStreakStart
                /\ other.streaks.longestStreakEnd = analysis.streaks.longestStreakEnd

\* four commits were analysed latest first, the second of them to another
\* repository: in another order that repository is met first, and the first
\* commit of octo/app is the commit handled last
C30_Witness ==
    /\ pc = "analyzed"
    /\ Len(input) = 4
    /\ analysis.repoOrder = <<"octo/app", "octo/lib">>
    /\ \E order \in Orders(4) : AnalysisIn(order).repoOrder = <<"octo/lib", "octo/app">>
    /\ analysis.repoMap["octo/app"].firstCommit = input[4].date
    /\ analysis.repoMap["octo/app"].lastCommit = input[1].date
    /\ analysis.repoMap["octo/app"].commitCount = 3
    /\ analysis.streaks.longestStreak = 3

----------------------------------------------------------------------------
(* C31: during the loop each commit increments exactly one of the 24 hourly *)
(* buckets, one of the 7 weekday buckets and one of the 12 month buckets    *)
(* (all by its UTC timestamp) and no bucket ever decreases; after every     *)
(* step the sum of each histogram equals the number of commits handled, and *)
(* at the end night + morning + afternoon + evening = weekend + weekday =   *)
(* the number of commits.                                                   *)

\* arr[bucket] is incremented and no other element of arr changes
OnlyIncremented(before, after, bucket) ==
    /\ DOMAIN after = DOMAIN before
    /\ bucket \in DOMAIN before
    /\ \A b \in DOMAIN before :
           after[b] = before[b] + (IF b = bucket THEN 1 ELSE 0)

\* the sum of the elements of a 0-based array
RECURSIVE SumFrom(_, _)
SumFrom(arr, b) == IF b \notin DOMAIN arr THEN 0 ELSE arr[b] + SumFrom(arr, b + 1)

TotalOf(arr) == SumFrom(arr, 0)

\* the three histograms, while the loop runs and after it
Histograms == IF pc = "loop" THEN analysis ELSE analysis.timeAnalysis

C31_HistogramsCountEveryCommit ==
    /\ [][AnalyzeCommit =>
            LET commit == input[Len(categories) + 1]
            IN  /\ OnlyIncremented(analysis.hourlyActivity, analysis'.hourlyActivity,
                                   commit.date % 24)
                /\ OnlyIncremented(analysis.dailyActivity, analysis'.dailyActivity,
                                   ((commit.date \div 24) + 4) % 7)
                /\ OnlyIncremented(analysis.monthlyActivity, analysis'.monthlyActivity,
                                   ToISODate(commit.date \div 24)[2] - 1)]_vars
    /\ [][AnalyzeMetrics =>
            /\ analysis'.timeAnalysis.hourlyActivity = analysis.hourlyActivity
            /\ analysis'.timeAnalysis.dailyActivity = analysis.dailyActivity
            /\ analysis'.timeAnalysis.monthlyActivity = analysis.monthlyActivity]_vars
    /\ [](/\ DOMAIN Histograms.hourlyActivity = 0..23
          /\ DOMAIN Histograms.dailyActivity = 0..6
          /\ DOMAIN Histograms.monthlyActivity = 0..11
          /\ TotalOf(Histograms.hourlyActivity) = Len(categories)
          /\ TotalOf(Histograms.dailyActivity) = Len(categories)
          /\ TotalOf(Histograms.monthlyActivity) = Len(categories))
    /\ [](pc = "analyzed" =>
            LET time == analysis.timeAnalysis
            IN  /\ time.nightCommits + time.morningCommits + time.afternoonCommits
                       + time.eveningCommits = Len(input)
                /\ time.weekendCommits + time.weekdayCommits = Len(input))

\* two projects of 8 and 16 commits, all made at 09:00 UTC from Saturday
\* 2025-03-01 on: 24 morning commits, 8 of them on the two days of the weekend
C31_Witness ==
    /\ pc = "analyzed"
    /\ Len(input) = 24
    /\ analysis.timeAnalysis.hourlyActivity[9] = 24
    /\ analysis.timeAnalysis.morningCommits = 24
    /\ analysis.timeAnalysis.dailyActivity[6] = 2
    /\ analysis.timeAnalysis.dailyActivity[0] = 2
    /\ analysis.timeAnalysis.weekendCommits = 4
    /\ analysis.timeAnalysis.weekdayCommits = 20
    /\ analysis.timeAnalysis.monthlyActivity[2] = 24

----------------------------------------------------------------------------
(* C32: range searches are issued strictly one after another (never two     *)
(* requests in flight): months in order 1 to 12, within a bisected month    *)
(* the week chunks in ascending date order, within a bisected week the days *)
(* in ascending date order; a month's surviving results are merged into the *)
(* output list before the next month is searched.                           *)

\* the searches issued at this level, in the order they were issued
IssuedAt(lvl) == SelectSeq(issued, LAMBDA q : q[1] = lvl)

\* the ranges begin on ascending days
AscendingStarts(searches) ==
    \A k \in 1..(Len(searches) - 1) :
        ParseDate(searches[k][2]) < ParseDate(searches[k + 1][2])

\* each search lies within the month searched last before it, and no search
\* begins before the one issued before it
IssuedInDateOrder ==
    \A k \in 1..(Len(issued) - 1) :
        LET earlier == issued[k]
            later == issued[k + 1]
        IN  /\ ParseDate(earlier[2]) <= ParseDate(later[2])
            /\ later[1] = "month" => ParseDate(earlier[3]) < ParseDate(later[2])
            /\ later[1] = "week" =>
                   IF earlier[1] = "month" THEN later[2] = earlier[2]
                   ELSE ParseDate(later[2]) = ParseDate(earlier[3]) + 1
            /\ later[1] = "day" =>
                   /\ later[3] = later[2]
                   /\ IF earlier[1] = "week" THEN later[2] = earlier[2]
                      ELSE earlier[1] = "day"
                           /\ ParseDate(later[2]) = ParseDate(earlier[2]) + 1

\* every commit of the list is in the output list
AllMerged(commits) ==
    \A k \in 1..Len(commits) : \E j \in 1..Len(allCommits) : allCommits[j] = commits[k]

C32_SearchesAreSequentialAndOrdered ==
    /\ [][issued' # issued =>
            /\ pc \in {"month", "return"}
            /\ pc' = "fetch"
            /\ Len(issued') = Len(issued) + 1
            /\ SubSeq(issued', 1, Len(issued)) = issued
            /\ issued'[Len(issued')] = <<level', search'.start, search'.end>>]_vars
    /\ [](pc = "fetch" =>
            /\ issued # <<>>
            /\ issued[Len(issued)] = <<level, search.start, search.end>>)
    /\ [](pc \in {"month", "fetch", "return", "merge", "crawled", "done"} =>
            /\ LET monthly == IssuedAt("month")
               IN  \A k \in 1..Len(monthly) :
                       monthly[k] = <<"month", months[k].start, months[k].end>>
            /\ AscendingStarts(IssuedAt("week"))
            /\ AscendingStarts(IssuedAt("day"))
            /\ IssuedInDateOrder)
    /\ [](pc \in {"crawled", "done"} => Len(IssuedAt("month")) = 12)
    /\ [][BeginMonth =>
            /\ Len(IssuedAt("month")) = monthIdx - 1
            /\ monthIdx > 1 =>
                   /\ AllMerged(result.commits)
                   /\ \A sha \in seenShas : \E k \in 1..Len(allCommits) : allCommits[k] = sha]_vars

\* the crawl of a year whose June was searched in five week chunks and the
\* third of them day by day: 12 + 5 + 7 searches, July only after 29-30 June
C32_Witness ==
    /\ scenario = "BusyDay2025"
    /\ pc = "crawled"
    /\ Len(issued) = 24
    /\ Len(IssuedAt("week")) = 5
    /\ Len(IssuedAt("day")) = 7
    /\ issued[6] = <<"month", <<2025, 6, 1>>, <<2025, 6, 30>>>>
    /\ issued[9] = <<"week", <<2025, 6, 15>>, <<2025, 6, 21>>>>
    /\ issued[10] = <<"day", <<2025, 6, 15>>, <<2025, 6, 15>>>>
    /\ issued[16] = <<"day", <<2025, 6, 21>>, <<2025, 6, 21>>>>
    /\ issued[17] = <<"week", <<2025, 6, 22>>, <<2025, 6, 28>>>>
    /\ issued[18] = <<"week", <<2025, 6, 29>>, <<2025, 6, 30>>>>
    /\ issued[19] = <<"month", <<2025, 7, 1>>, <<2025, 7, 31>>>>
    /\ Len(allCommits) > 0

----------------------------------------------------------------------------
(* C33: if a single range request never responds, the crawl still           *)
(* eventually completes: the hanging sub-range is abandoned after a         *)
(* deadline, handled like a transport error (its partial result is          *)
(* accepted), and all remaining sibling ranges are still searched.          *)

\* a range search was issued for days after the range in hand
LaterRangeSearched ==
    \E k \in 1..Len(issued) : ParseDate(issued[k][2]) > ParseDate(search.end)

\* the crawl has come to its end, and the ranges after the one whose request
\* hung were searched
CompletedPastHang ==
    /\ pc \in {"crawled", "done"}
    /\ EveryMonthSearched
    /\ \E k \in 1..Len(issued) :
           issued[k][1] = "week" /\ ParseDate(issued[k][2]) > ParseDate(<<2024, 4, 21>>)

C33_HangingRequestIsAbandoned ==
    (pc = "fetch" /\ Hangs) ~> CompletedPastHang

\* what the worker does: the call waits for the answer for good, no further
\* range is searched and the caller is never answered
WorkerStallsOnHang ==
    [](impl = "worker" /\ pc = "fetch" /\ Hangs =>
           /\ ~ENABLED CrawlStep
           /\ ~LaterRangeSearched
           /\ response = NoResponse)

\* what the workflow does: the month is started StepRetries + 1 times, then
\* the instance ends as errored; the weeks after the hanging one are never
\* searched
WorkflowFailsOnHang ==
    /\ [][StepTimeout => ~LaterRangeSearched /\ pc' \in {"month", "failed"}]_vars
    /\ [](scenario = "Hanging2024" /\ impl = "workflow" => pc \notin {"crawled", "done"})
    /\ (impl = "workflow" /\ pc = "fetch" /\ Hangs) ~>
           (pc = "failed" /\ response = ErrorAnswer("workflow") /\ Attempts = StepRetries + 1)

----------------------------------------------------------------------------
(* C34: the longest streak handed to the narrative generator                *)
(* (prepareCommitStats().longestStreak, also exposed as                     *)
(* insights._rawStats.longestStreak) equals streaks.longestStreak of        *)
(* analyzeCommits for every commit list, including lists with several       *)
(* commits on the same calendar day.                                        *)

C34_PreparedStreakIsLongestStreak ==
    pc = "analyzed" =>
        PrepareCommitStats(input).longestStreak = analysis.streaks.longestStreak

\* how the two are related: prepareCommitStats counts commits, not days, and
\* takes two commits less than 48 hours apart as made on consecutive days, so
\* that its streak is never the shorter one
PreparedStreakAtLeastLongestStreak ==
    pc = "analyzed" =>
        PrepareCommitStats(input).longestStreak >= analysis.streaks.longestStreak

----------------------------------------------------------------------------
(* C35: in every snapshot commitTypes.fixes + features + refactors + other  *)
(* equals totalCommits with every count >= 0 (docs and test commits are     *)
(* counted under other), and for every project fixes + features +           *)
(* refactors + docs + tests + other equals its commitCount.                 *)

\* the four counts are not negative and add up to the total
CommitTypesAddUp(stats) ==
    LET types == stats.commitTypes
    IN  /\ types.fixes >= 0 /\ types.features >= 0
        /\ types.refactors >= 0 /\ types.other >= 0
        /\ types.fixes + types.features + types.refactors + types.other
               = stats.totalCommits

\* how many of the commits analysed are of one of these categories
CommitsOfCategories(cats) ==
    Cardinality({ k \in 1..Len(input) : Categorize(input[k].message) \in cats })

C35_CommitTypesAddUp ==
    pc = "analyzed" =>
        /\ snapshot.stats.totalCommits = Len(input)
        /\ CommitTypesAddUp(snapshot.stats)
        /\ snapshot.stats.commitTypes.fixes = CommitsOfCategories({"fix"})
        /\ snapshot.stats.commitTypes.features = CommitsOfCategories({"feature"})
        /\ snapshot.stats.commitTypes.refactors = CommitsOfCategories({"refactor"})
        /\ snapshot.stats.commitTypes.other = CommitsOfCategories({"docs", "test", "other"})
        /\ CommitTypesAddUp(
               WorkflowResult(year, input, AnalyzeCommitsForWorkflowOf(input)).stats)
        /\ \A repo \in DOMAIN analysis.repoMap :
               LET entry == analysis.repoMap[repo]
               IN  /\ entry.fixes >= 0 /\ entry.features >= 0 /\ entry.refactors >= 0
                   /\ entry.docs >= 0 /\ entry.tests >= 0 /\ entry.other >= 0
                   /\ entry.fixes + entry.features + entry.refactors
                          + entry.docs + entry.tests + entry.other = entry.commitCount

\* four commits, one a fix, one to each project about the "latest" state (a
\* test commit) and one uncategorised: other counts three of them, and
\* octo/app has one fix, one test commit and one other commit
C35_Witness ==
    /\ pc = "analyzed"
    /\ Len(input) = 4
    /\ categories = <<"fix", "test", "other", "test">>
    /\ snapshot.stats.commitTypes =
           [fixes |-> 1, features |-> 0, refactors |-> 0, other |-> 3]
    /\ analysis.repoMap["octo/app"].commitCount = 3
    /\ analysis.repoMap["octo/app"].fixes = 1
    /\ analysis.repoMap["octo/app"].tests = 1
    /\ analysis.repoMap["octo/app"].other = 1
    /\ analysis.repoMap["octo/lib"].tests = 1

----------------------------------------------------------------------------
(* caches.default across the requests of /api/wrapped.  An entry is stored  *)
(* under the request's URL with the parameter _cache_key added; the session *)
(* cookie is no part of that URL.                                           *)

\* how many requests of /api/wrapped reach the worker one after the other
MaxRequests == 2

\* BUILD_TIMESTAMP is not defined
CACHE_VERSION == "dev"

\* the session of a second user
OtherSessionCookie == <<SESSION_COOKIE_NAME, "gho_other">>

\* userInfo.login of GET /user under a session token
LoginOf(sessionToken) == IF sessionToken = "gho_session" THEN Subject ELSE "hubot"

\* url.searchParams.get('year') || '2025'
YearOf(req) == IF Truthy(req.year) THEN req.year ELSE "2025"

\* tokenFromQuery || sessionToken || env.GITHUB_TOKEN || null
TokenOf(req) ==
    IF Truthy(req.token) THEN req.token
    ELSE IF Truthy(GetSessionToken(req)) THEN GetSessionToken(req)
    ELSE IF Truthy(req.env.GITHUB_TOKEN) THEN req.env.GITHUB_TOKEN
    ELSE Absent

\* `wrapped:${CACHE_VERSION}:${username}:${year}${token ? ':private' : ''}`
CacheKey(username, yr, token) ==
    <<"wrapped", CACHE_VERSION, username, yr>>
        \o (IF Truthy(token) THEN <<"private">> ELSE <<>>)

\* new URL(request.url) with _cache_key set: the query of the request and the key
CacheUrl(req, cacheKey) ==
    [username |-> req.username, year |-> req.year, token |-> req.token,
     cacheKey |-> cacheKey]

\* the answer made of generateWrapped(username, year, token, env): what the
\* upstream shows of the user in the year to the bearer of the token
WrappedAnswer(username, yr, token) ==
    [status |-> 200, body |-> [user |-> username, year |-> yr, token |-> token]]

\* the answer of the catch block around generateWrapped
WrappedFailure == [status |-> 500, error |-> "Failed to fetch user info"]

\* /api/wrapped from the request to its answer
ServeWrapped ==
    /\ pc = "request"
    /\ \E lookup \in {"ok", "failed"}, generated \in {"ok", "throws"} :
           LET sessionToken == GetSessionToken(request)
               token == TokenOf(request)
               asked == NoUsername(request.username) /\ Truthy(sessionToken)
               calls == IF asked
                        THEN Append(outbound, AuthenticatedUser(sessionToken, lookup))
                        ELSE outbound
               username == IF asked /\ lookup = "ok" THEN LoginOf(sessionToken)
                           ELSE request.username
               cacheUrl == CacheUrl(request, CacheKey(username, YearOf(request), token))
           IN  /\ ~asked => lookup = "ok"
               /\ \/ /\ NoUsername(username)
                     /\ generated = "ok"
                     /\ response' = [status |-> 400, error |-> UsernameRequired]
                     /\ outbound' = calls
                     /\ cache' = cache
                  \/ /\ ~NoUsername(username)
                     /\ UsernameToLowerCase(username) \in {"demo", "demouser"}
                     /\ generated = "ok"
                     /\ response' = [status |-> 200, body |-> DemoData]
                     /\ outbound' = calls
                     /\ cache' = cache
                  \/ /\ ~NoUsername(username)
                     /\ UsernameToLowerCase(username) \notin {"demo", "demouser"}
                     /\ cacheUrl \in DOMAIN cache
                     /\ generated = "ok"
                     /\ response' = cache[cacheUrl]
                     /\ outbound' = Append(calls, CacheMatch("hit"))
                     /\ cache' = cache
                  \/ /\ ~NoUsername(username)
                     /\ UsernameToLowerCase(username) \notin {"demo", "demouser"}
                     /\ cacheUrl \notin DOMAIN cache
                     /\ outbound' = Append(calls, CacheMatch("miss"))
                     /\ IF generated = "ok"
                        THEN /\ response' = WrappedAnswer(username, YearOf(request), token)
                             /\ cache' = cache @@ (cacheUrl :> response')
                        ELSE /\ response' = WrappedFailure
                             /\ cache' = cache
    /\ pc' = "answered"
    /\ UNCHANGED <<runVars, request, anVars, months, monthIdx, level, days, i, d,
                   search, result, allCommits, seenShas, snapshot, histVars>>

CacheRequests ==
    [path : {"/api/wrapped"}, username : {Absent, Subject, "Demo"},
     year : {Absent, "2024"}, token : {Absent, "ghp_query"}, code : {Absent},
     state : {Absent},
     cookie : {<<>>, <<SessionCookie>>, <<OtherSessionCookie>>},
     env : {Env, [Env EXCEPT !.GITHUB_TOKEN = "ghp_env"]}]

\* the next request reaches the same deployment of the worker
NextRequest ==
    /\ pc = "answered"
    /\ run < MaxRequests
    /\ run' = run + 1
    /\ request' \in {req \in CacheRequests : req.env = request.env}
    /\ response' = NoResponse
    /\ outbound' = <<>>
    /\ pc' = "request"
    /\ UNCHANGED <<impl, scenario, year, firstRun, cache, anVars, months, monthIdx, level,
                   days, i, d, search, result, allCommits, seenShas, snapshot, histVars>>

InitCache ==
    /\ scenario = "Flaky2024"
    /\ year = Scenario(scenario).year
    /\ run = 1
    /\ firstRun = <<>>
    /\ input = <<>>
    /\ analysis = NoAnalysis
    /\ categories = <<>>
    /\ request \in CacheRequests
    /\ impl = "worker"
    /\ cache = NoCache
    /\ response = NoResponse
    /\ outbound = <<>>
    /\ pc = "request"
    /\ InitLocals

NextCache == ServeWrapped \/ NextRequest

SpecCache == InitCache /\ [][NextCache]_vars

\* the answer in hand came out of caches.default
ServedFromCache ==
    /\ pc = "answered"
    /\ Len(outbound) > 0
    /\ outbound[Len(outbound)] = CacheMatch("hit")

\* the user the request in hand asks about
SubjectOf(req) ==
    IF NoUsername(req.username) THEN LoginOf(GetSessionToken(req)) ELSE req.username

CacheHitOnlyForSameSubjectYearAndAuthPresence ==
    ServedFromCache =>
        /\ response.status = 200
        /\ response.body.user = SubjectOf(request)
        /\ response.body.year = YearOf(request)
        /\ Truthy(response.body.token) <=> Truthy(TokenOf(request))

\* no error answer is ever stored
ErrorsAreNeverStored ==
    \A cacheUrl \in DOMAIN cache : cache[cacheUrl].status = 200

\* the second user's request is answered with the snapshot generated with the
\* first user's session token
SnapshotServedAcrossSessions ==
    /\ ServedFromCache
    /\ GetSessionToken(request) = "gho_other"
    /\ response.body.token = "gho_session"

\* the fields of a project's entry that both pipelines report
SharedRepoFields(r) ==
    [fullName |-> r.fullName, commits |-> r.commits, fixes |-> r.fixes,
     features |-> r.features, refactors |-> r.refactors,
     problemRatio |-> r.problemRatio, velocity |-> r.velocity,
     blitzScore |-> r.blitzScore, activeDays |-> r.activeDays]

\* the project a highlight names, if any
WinnerOf(highlight) == IF highlight = Null THEN Null ELSE highlight.name

\* the winners of the five highlights
WinnersOf(repoHighlights) ==
    [h \in {"mostActive", "mostProblematic", "blitzRepo", "mostFeatures", "steadiest"} |->
        WinnerOf(repoHighlights[h])]

\* C37: for every commit list, analyzeCommitsForWorkflow + buildRepoHighlights
\* and analyzeCommits + the highlight selection of generateWrapped produce the
\* same per-project commits, fixes, features, refactors, problemRatio,
\* velocity, blitzScore and activeDays, the same histograms, codingStyle,
\* isWeekendWarrior and streak, the same commitTypes totals and the same five
\* highlight winners
C37_PipelinesAgree ==
    pc = "analyzed" =>
        LET workflow == WorkflowResult(year, input, AnalyzeCommitsForWorkflowOf(input))
            mine == snapshot.stats.allRepositories
            theirs == workflow.stats.allRepositories
        IN  /\ Len(mine) = Len(theirs)
            /\ \A k \in 1..Len(mine) : SharedRepoFields(mine[k]) = SharedRepoFields(theirs[k])
            /\ snapshot.timeAnalysis.hourlyActivity = workflow.timeAnalysis.hourlyActivity
            /\ snapshot.timeAnalysis.dailyActivity = workflow.timeAnalysis.dailyActivity
            /\ snapshot.timeAnalysis.monthlyActivity = workflow.timeAnalysis.monthlyActivity
            /\ snapshot.timeAnalysis.codingStyle = workflow.timeAnalysis.codingStyle
            /\ snapshot.timeAnalysis.isWeekendWarrior = workflow.timeAnalysis.isWeekendWarrior
            /\ snapshot.streaks = workflow.streaks
            /\ snapshot.stats.commitTypes = workflow.stats.commitTypes
            /\ WinnersOf(snapshot.repoHighlights) = WinnersOf(workflow.repoHighlights)

\* four commits to two projects, two of them test commits to the worker and
\* uncategorised to the workflow: both pipelines count one fix and three other
\* commits and name octo/app the most active project
C37_Witness ==
    /\ pc = "analyzed"
    /\ categories = <<"fix", "test", "other", "test">>
    /\ CategoriesForWorkflowOf(input) = <<"fix", "other", "other", "other">>
    /\ Len(snapshot.stats.allRepositories) = 2
    /\ WinnerOf(snapshot.repoHighlights.mostActive) = "octo/app"
    /\ WinnerOf(snapshot.repoHighlights.mostFeatures) = "octo/app"
    /\ snapshot.stats.commitTypes.other = 3

\* the month in hand was split and its result has been merged
SplitMonthMerged == pc \in {"month", "crawled"} /\ bisected

\* C38: bisecting a truncated month never makes it contribute fewer distinct
\* commits than the discarded month-level partial result contained: for every
\* upstream behaviour, errors during the week or day searches included, each
\* commit returned by the month-level search is in the list once the month
\* has been merged
C38_BisectionKeepsMonthLevelCommits ==
    SplitMonthMerged =>
        \A k \in 1..Len(discarded) : \E n \in 1..Len(allCommits) : allCommits[n] = discarded[k]

\* as long as no request of the crawl has failed, the commits of the discarded
\* month-level result are in the list once the month has been merged
BisectionKeepsMonthLevelCommitsWithoutErrors ==
    (SplitMonthMerged /\ ~faulted) =>
        \A k \in 1..Len(discarded) : \E n \in 1..Len(allCommits) : allCommits[n] = discarded[k]

\* a month was split after its month-level search had returned commits
MonthLevelCommitsDiscarded == SplitMonthMerged /\ discarded # <<>>

----------------------------------------------------------------------------
(* getAllCommitsForRepo of the GraphQL worker: the history of a repository  *)
(* is read page by page and the commits of the user are kept.  `input` is   *)
(* the history as the upstream pages it, `search` the locals of the loop,   *)
(* `result` the last answer of getDetailedCommitsForRepo and `issued` the   *)
(* cursors asked for.                                                       *)

\* the longest history, in pages
MaxHistory == 12

\* const maxPages = 10
maxPages == 10

\* login.toLowerCase() on the logins of the histories below
LoginToLowerCase(login) == IF login = "Octocat" THEN "octocat" ELSE login

\* a node of history.nodes
HistoryNode(oid, author) == [oid |-> oid, author |-> author]

\* the page of a history: two commits, the first by the user if the page is
\* one of `mine`, the others by a second user or by nobody the upstream knows
HistoryPage(p, mine) ==
    << HistoryNode(2 * p - 1,
                   IF p \in mine THEN [user |-> [login |-> "Octocat"]]
                   ELSE [user |-> [login |-> "hubot"]]),
       HistoryNode(2 * p, IF p % 2 = 0 THEN [user |-> Null] ELSE Null) >>

\* the histories read: the user's commits are on every page, on the pages
\* from one on, or on one page only
Histories ==
    { [p \in 1..n |-> HistoryPage(p, 1..n)] : n \in 1..MaxHistory }
        \cup { [p \in 1..n |-> HistoryPage(p, k..n)] : n \in 1..MaxHistory, k \in 1..MaxHistory }
        \cup { [p \in 1..n |-> HistoryPage(p, {k})] : n \in 1..MaxHistory, k \in 1..MaxHistory }

\* the filter of getDetailedCommitsForRepo
ByUser(commit, username) ==
    /\ commit.author # Null
    /\ commit.author.user # Null
    /\ LoginToLowerCase(commit.author.user.login) = LoginToLowerCase(username)

\* history.nodes.filter(...).map(...): the commits of the user among the nodes
FilteredCommits(nodes, username) ==
    LET kept == SelectSeq(nodes, LAMBDA commit : ByUser(commit, username))
    IN  [k \in 1..Len(kept) |-> kept[k].oid]

\* getDetailedCommitsForRepo with this cursor: the page after the cursor
DetailedCommits(history, username, cursor) ==
    [commits |-> FilteredCommits(history[cursor + 1], username),
     hasNextPage |-> cursor + 1 < Len(history),
     endCursor |-> cursor + 1]

\* what getDetailedCommitsForRepo returns when the repository has no default
\* branch or the request throws
NoDetailedCommits == [commits |-> <<>>, hasNextPage |-> FALSE, endCursor |-> 0]

\* if (result.commits.length === 0 && allCommits.length === 0) break
StopEarly(got, all) == Len(got) = 0 /\ Len(all) = 0

\* the locals of getAllCommitsForRepo before the loop
PagingStart == [cursor |-> 0, hasNextPage |-> TRUE, pageCount |-> 0]

\* one iteration of the loop of getAllCommitsForRepo around this answer, and
\* the return when the loop ends with it
ReadPage(answer) ==
    /\ pc = "pages"
    /\ search.hasNextPage /\ search.pageCount < maxPages
    /\ result' = answer
    /\ issued' = Append(issued, search.cursor)
    /\ allCommits' = allCommits \o answer.commits
    /\ search' = [cursor |-> answer.endCursor, hasNextPage |-> answer.hasNextPage,
                  pageCount |-> search.pageCount + 1]
    /\ pc' = IF StopEarly(answer.commits, allCommits')
                \/ ~(search'.hasNextPage /\ search'.pageCount < maxPages)
             THEN "returned" ELSE "pages"

\* an iteration whose request is answered with a page of the history
GetPage ==
    /\ ReadPage(DetailedCommits(input, Subject, search.cursor))
    /\ UNCHANGED <<runVars, httpVars, anVars, months, monthIdx, level, days, i, d, seenShas,
                   snapshot, faulted, observed, monthTruncated, keptIncomplete, bisected,
                   sources, discarded>>

\* an iteration whose request fails
GetPageFails ==
    /\ ReadPage(NoDetailedCommits)
    /\ faulted' = TRUE
    /\ UNCHANGED <<runVars, httpVars, anVars, months, monthIdx, level, days, i, d, seenShas,
                   snapshot, observed, monthTruncated, keptIncomplete, bisected,
                   sources, discarded>>

InitPages ==
    /\ impl = "worker"
    /\ scenario = "Flaky2024"
    /\ year = Scenario(scenario).year
    /\ run = 1
    /\ firstRun = <<>>
    /\ input \in Histories
    /\ analysis = NoAnalysis
    /\ categories = <<>>
    /\ months = <<>>
    /\ monthIdx = 0
    /\ level = "none"
    /\ days = <<>>
    /\ i = 0
    /\ d = 0
    /\ search = PagingStart
    /\ result = NoDetailedCommits
    /\ allCommits = <<>>
    /\ seenShas = {}
    /\ snapshot = <<>>
    /\ faulted = FALSE
    /\ issued = <<>>
    /\ observed = <<>>
    /\ monthTruncated = FALSE
    /\ keptIncomplete = FALSE
    /\ bisected = FALSE
    /\ sources = <<>>
    /\ discarded = <<>>
    /\ request = SubjectRequest("/api/wrapped")
    /\ response = NoResponse
    /\ cache = NoCache
    /\ outbound = <<>>
    /\ pc = "pages"

NextPages == GetPage \/ GetPageFails

SpecPages == InitPages /\ [][NextPages]_vars

\* the commits of the user on the first n pages of the history, in order
RECURSIVE CommitsOnPages(_, _)
CommitsOnPages(history, n) ==
    IF n = 0 THEN <<>>
    ELSE CommitsOnPages(history, n - 1) \o FilteredCommits(history[n], Subject)

\* C39: getAllCommitsForRepo requests at most 10 history pages per repository,
\* always terminates, and returns every commit authored by the user on the
\* pages it is allowed to read (up to the first page without a next page, or
\* the 10th page); commits by the user on a later page are not lost because an
\* earlier page contained none of theirs
C39_ReturnsEveryCommitOfTheReadablePages ==
    /\ Len(issued) <= maxPages
    /\ search.pageCount = Len(issued)
    /\ pc = "pages" => ENABLED GetPage
    /\ (pc = "returned" /\ ~faulted) =>
           allCommits = CommitsOnPages(input, Min(Len(input), maxPages))

\* at most 10 pages are requested, one after the other from the first on, the
\* loop is never stuck before it returns, and what is returned are the
\* commits of the user on the pages that were requested
ReturnsEveryCommitOfThePagesRequested ==
    /\ Len(issued) <= maxPages
    /\ \A k \in 1..Len(issued) : issued[k] = k - 1
    /\ pc = "pages" => ENABLED GetPage
    /\ ~faulted => allCommits = CommitsOnPages(input, Len(issued))

\* once a commit of the user has been found, and as long as no request fails,
\* every page up to the last or the 10th is read
ReadsOnOnceACommitIsFound ==
    (pc = "returned" /\ ~faulted /\ allCommits # <<>>) =>
        allCommits = CommitsOnPages(input, Min(Len(input), maxPages))

\* the first page holds no commit of the user and the second one does: the
\* loop stops after the first page and returns nothing
LaterPageLost ==
    /\ pc = "returned"
    /\ ~faulted
    /\ issued = <<0>>
    /\ allCommits = <<>>
    /\ Len(input) >= 2
    /\ FilteredCommits(input[2], Subject) # <<>>

============================================================================
